---- MODULE Spec2Model ----
(***************************************************************************)
(* Model of skills/multi-terminal/scripts/terminal_session.py:             *)
(* TerminalSession (a handle on one tmux session with a name -> window_id  *)
(* registry) and MultiServiceOrchestrator (named services on top of it),   *)
(* together with the part of the multiplexer the handle drives: sessions,  *)
(* windows, panes and the scroll-back of each pane.                        *)
(*                                                                         *)
(* Time is the reading time.time() - start_time of the wait in progress,   *)
(* counted in polling ticks; it advances only while a wait sleeps.         *)
(***************************************************************************)
EXTENDS Integers, Sequences, FiniteSets, TLC

\* ------------------------------------------------------------------ bounds
MaxPanes == 3        \* pane identifiers the multiplexer hands out in one run
MaxLines == 3        \* lines the monitored processes print in one run
MaxTimeout == 2      \* largest caller-supplied timeout, in ticks
PaneHeight == 2      \* rows of the visible part of a pane

\* ------------------------------------------------------- program constants
DefaultLines == 100      \* capture_output(lines=100)
StreamLines == 1000      \* stream_output captures lines=1000
DefaultInterval == 1     \* wait_for_pattern(interval=0.5): one tick
GraceSeconds == 2        \* shutdown_all: time.sleep(2)

Intervals == {1, 2}      \* caller-supplied poll intervals, in ticks
Oversleep == {0, 1}      \* ticks by which time.sleep may return late
SessionNames == {"dev", "ci"}
WindowNames == {"api", "db"}
Commands == {"", "run"}
Lines == {"READY", "boot"}
WaitPatterns == {"ready", "fail"}
NoPattern == "None"
ReadyPatterns == {NoPattern, "", "ready", "fail"}
ShellName == "sh"        \* name tmux gives the first window of a session
HereDir == "."           \* TerminalSession(name, working_dir="."), resolved
Dirs == {"/srv/a", "/srv/b"}     \* working directories callers give

\* ------------------------------------------------------- run_e2e_tests.py
E2ESession == "choiros-e2e"
BASE_DIR == "/Users/wiz/choiros-rs"
HEALTH_CHECK_TIMEOUT == MaxTimeout      \* 120 seconds, in ticks of the model
TEST_TIMEOUT == MaxTimeout              \* 300 seconds, in ticks of the model

ScriptWindowsFrontendFirst ==
    <<[name |-> "frontend", command |-> "cargo run",
       dir |-> "/Users/wiz/choiros-rs/sandbox-ui", check |-> "abort"],
      [name |-> "backend", command |-> "cargo run -p sandbox", dir |-> "",
       check |-> "abort"],
      [name |-> "browser", command |-> "./skills/dev-browser/server.sh", dir |-> "",
       check |-> "continue"],
      [name |-> "e2e-test", command |-> "npx tsx test_e2e_basic_chat_flow.ts",
       dir |-> "/Users/wiz/choiros-rs/tests/e2e", check |-> "none"]>>

\* The windows main adds, in the order of its statements: the name, the
\* command and the working_dir argument of each add_window ("" when none is
\* given), and what main does when the health check that follows returns
\* False: `return 1` after killing the session (abort), go on (continue);
\* no check follows the last window (none).
ScriptWindows ==
    <<[name |-> "backend", command |-> "cargo run -p sandbox", dir |-> "",
       check |-> "abort"],
      [name |-> "frontend", command |-> "cargo run",
       dir |-> "/Users/wiz/choiros-rs/sandbox-ui", check |-> "abort"],
      [name |-> "browser", command |-> "./skills/dev-browser/server.sh", dir |-> "",
       check |-> "continue"],
      [name |-> "e2e-test", command |-> "npx tsx test_e2e_basic_chat_flow.ts",
       dir |-> "/Users/wiz/choiros-rs/tests/e2e", check |-> "none"]>>

\* The pane identifiers of the model: those of the handles' sessions, and
\* those of a run of the script (a session left by an earlier run, the new
\* session and its windows).
PaneIds == 1..(MaxPanes + Len(ScriptWindows) + 2)

\* ------------------------------------------------------------ small helpers
Last(s) == s[Len(s)]

Range(s) == {s[i] : i \in DOMAIN s}

Min(a, b) == IF a < b THEN a ELSE b

Tail2(s, k) == SubSeq(s, Len(s) - Min(k, Len(s)) + 1, Len(s))

RECURSIVE Blank(_)
Blank(k) == IF k <= 0 THEN <<>> ELSE <<"">> \o Blank(k - 1)

RECURSIVE SeqSum(_)
SeqSum(s) == IF s = <<>> THEN 0 ELSE Head(s) + SeqSum(Tail(s))

\* ---------------------------------------------------------------- targets
\* A window_id "<session>:<window name>", "<session>:<%pane>" or "<session>:".
Id(s, w, p) == [s |-> s, w |-> w, p |-> p]
NameId(s, w) == Id(s, w, 0)
PaneRef(s, p) == Id(s, "", p)
SessionTarget(s) == Id(s, "", 0)

\* One invocation of tmux (or one time.sleep): its text argument a, its
\* numeric argument n.
Cmd(c, t, a) == [cmd |-> c, t |-> t, a |-> a, n |-> 0]
CmdN(c, t, n) == [cmd |-> c, t |-> t, a |-> "", n |-> n]

\* ------------------------------------------------------------ multiplexer
\* The state of tmux: live sessions, their windows in creation order (each
\* with its panes in layout order and its active pane), the current window
\* of every session, the scroll-back of every live pane, the next pane
\* identifier, the default directory of every live session (root) and the
\* directory every live pane was started in (cwd).  A window is identified
\* by the pane it was created with.
EmptyMux ==
    [sessions |-> {}, wins |-> <<>>,
     cur |-> [s \in SessionNames \cup {E2ESession} |-> 0],
     buf |-> [p \in PaneIds |-> <<>>], next |-> 1,
     root |-> [s \in SessionNames \cup {E2ESession} |-> ""],
     cwd |-> [p \in PaneIds |-> ""]]

Window(wid, s, wname) ==
    [wid |-> wid, sess |-> s, wname |-> wname, panes |-> <<wid>>, act |-> wid]

LivePanes(m) == UNION {Range(m.wins[i].panes) : i \in DOMAIN m.wins}

WinIndexes(m, s) == {i \in DOMAIN m.wins : m.wins[i].sess = s}

\* Index in m.wins of the window a target names, 0 when tmux cannot find it.
ResolveWin(m, id) ==
    IF id.s \notin m.sessions THEN 0
    ELSE IF id.p # 0 THEN
        LET c == {i \in WinIndexes(m, id.s) : id.p \in Range(m.wins[i].panes)}
        IN  IF c = {} THEN 0 ELSE CHOOSE i \in c : TRUE
    ELSE IF id.w # "" THEN
        LET c == {i \in WinIndexes(m, id.s) : m.wins[i].wname = id.w}
        IN  IF Cardinality(c) = 1 THEN CHOOSE i \in c : TRUE ELSE 0
    ELSE
        LET c == {i \in WinIndexes(m, id.s) : m.wins[i].wid = m.cur[id.s]}
        IN  IF c = {} THEN 0 ELSE CHOOSE i \in c : TRUE

\* The pane a target names (the active pane of a window target), 0 if none.
ResolvePane(m, id) ==
    LET i == ResolveWin(m, id)
    IN  IF i = 0 THEN 0 ELSE IF id.p # 0 THEN id.p ELSE m.wins[i].act

\* The multiplexer has handed out at most MaxPanes pane identifiers.
WithinPanes(m) == m.next <= MaxPanes + 1

TmuxHasSession(m, n) == n \in m.sessions

\* new-session -d -s n: fails on a duplicate name; the session starts with
\* one window holding one pane.
TmuxNewSession(m, n) ==
    IF n \in m.sessions THEN [ok |-> FALSE, m |-> m]
    ELSE [ok |-> TRUE,
          m |-> [m EXCEPT !.sessions = @ \cup {n},
                          !.wins = Append(@, Window(m.next, n, ShellName)),
                          !.cur[n] = m.next,
                          !.next = @ + 1]]

\* new-window -t n -n wname: appended to the session and made current.
TmuxNewWindow(m, n, wname) ==
    IF n \notin m.sessions THEN [ok |-> FALSE, m |-> m]
    ELSE [ok |-> TRUE,
          m |-> [m EXCEPT !.wins = Append(@, Window(m.next, n, wname)),
                          !.cur[n] = m.next,
                          !.next = @ + 1]]

InsertAfter(s, x, y) ==
    LET k == CHOOSE i \in DOMAIN s : s[i] = x
    IN  SubSeq(s, 1, k) \o <<y>> \o SubSeq(s, k + 1, Len(s))

\* split-window -t id: the new pane is placed right after the pane that is
\* split and becomes the active pane of that window.
TmuxSplitWindow(m, id) ==
    LET i == ResolveWin(m, id)
        p == ResolvePane(m, id)
    IN  IF i = 0 THEN [ok |-> FALSE, m |-> m]
        ELSE [ok |-> TRUE,
              m |-> [m EXCEPT !.wins[i].panes = InsertAfter(@, p, m.next),
                              !.wins[i].act = m.next,
                                  !.next = @ + 1]]

\* list-panes -t n -F "#{pane_id}": the panes of the session's current
\* window, in layout order; nothing when the session does not exist.
TmuxListPanes(m, n) ==
    LET i == ResolveWin(m, SessionTarget(n))
    IN  IF i = 0 THEN <<>> ELSE m.wins[i].panes

\* The rows capture-pane prints: up to `lines` rows of history, then every
\* row of the visible pane, blank rows included.
Visible(b) ==
    IF Len(b) >= PaneHeight THEN Tail2(b, PaneHeight)
    ELSE b \o Blank(PaneHeight - Len(b))

History(b) ==
    IF Len(b) > PaneHeight THEN SubSeq(b, 1, Len(b) - PaneHeight) ELSE <<>>

TmuxCapturePane(m, id, lines) ==
    LET p == ResolvePane(m, id)
    IN  IF p = 0 THEN <<>> ELSE Tail2(History(m.buf[p]), lines) \o Visible(m.buf[p])

\* The scroll-back of a pane goes with the pane.
Restrict(f, S) == [x \in DOMAIN f |-> IF x \in S THEN f[x] ELSE <<>>]

\* What tmux keeps of m for the sessions and panes that are left.
Forget(m) ==
    [m EXCEPT !.buf = Restrict(@, LivePanes(m)),
              !.cwd = [p \in DOMAIN @ |-> IF p \in LivePanes(m) THEN @[p] ELSE ""],
              !.root = [s \in DOMAIN @ |-> IF s \in m.sessions THEN @[s] ELSE ""]]

\* `-c dir` of new-session, new-window and split-window: a session the
\* command created has dir as its default directory, and a pane it created
\* starts in dir.
StartIn(m, made, dir) ==
    [made EXCEPT
        !.cwd = [p \in DOMAIN @ |->
                    IF p \in LivePanes(made) \ LivePanes(m) THEN dir ELSE @[p]],
        !.root = [s \in DOMAIN @ |->
                    IF s \in made.sessions \ m.sessions THEN dir ELSE @[s]]]

RemoveWins(m, gone) ==
    LET keep == {i \in DOMAIN m.wins : i \notin gone}
        F[i \in 0..Len(m.wins)] ==
            IF i = 0 THEN <<>>
            ELSE IF i \in keep THEN Append(F[i - 1], m.wins[i]) ELSE F[i - 1]
    IN  F[Len(m.wins)]

\* kill-session -t n
TmuxKillSession(m, n) ==
    IF n \notin m.sessions THEN [ok |-> FALSE, m |-> m]
    ELSE LET wins == RemoveWins(m, WinIndexes(m, n))
             m2 == [m EXCEPT !.sessions = @ \ {n}, !.wins = wins, !.cur[n] = 0]
         IN  [ok |-> TRUE, m |-> Forget(m2)]

\* kill-window -t id: destroys the window with all its panes; the window
\* created last among those left becomes current, and a session left
\* without windows ends.
TmuxKillWindow(m, id) ==
    LET i == ResolveWin(m, id)
    IN  IF i = 0 THEN [ok |-> FALSE, m |-> m]
        ELSE LET s == m.wins[i].sess
                 rest == WinIndexes(m, s) \ {i}
             IN  IF rest = {} THEN TmuxKillSession(m, s)
                 ELSE LET top == CHOOSE j \in rest : \A k \in rest : k <= j
                          ncur == IF m.cur[s] = m.wins[i].wid
                                  THEN m.wins[top].wid ELSE m.cur[s]
                          m2 == [m EXCEPT !.wins = RemoveWins(m, {i}), !.cur[s] = ncur]
                      IN  [ok |-> TRUE, m |-> Forget(m2)]

\* ----------------------------------------------------------------- regex
\* re.compile(pattern, re.IGNORECASE).search(output) for the patterns and
\* lines of the model: the lower-cased pattern occurs in a lower-cased row.
Fold(x) ==
    CASE x = "READY" -> "ready"
      [] x = "ERROR" -> "error"
      [] x = "FATAL" -> "fatal"
      [] x = "CRASH" -> "crash"
      [] x = "Exception" -> "exception"
      [] x = "ERROR: disk full" -> "error: disk full"
      [] OTHER -> x

SearchSensitive(pattern, rows) ==
    pattern = "" \/ \E i \in DOMAIN rows : rows[i] # "" /\ rows[i] = pattern

Search(pattern, rows) ==
    pattern = "" \/ \E i \in DOMAIN rows : rows[i] # "" /\ Fold(rows[i]) = Fold(pattern)

\* output.split("\n") of a capture whose rows each end in a newline.
SplitLines(rows) == rows \o <<"">>

\* ------------------------------------------------------------------ state
VARIABLES
    mux,        \* the multiplexer
    name,       \* TerminalSession.name
    working_dir, \* TerminalSession.working_dir
    ensuring,   \* _ensure_session of every concurrent controller: where it stands
    script,     \* run_e2e_tests.main: where it stands and what it noted
    windows,    \* TerminalSession.windows: name -> window_id, in insertion order
    services,   \* MultiServiceOrchestrator.services, in insertion order
    issued,     \* the tmux commands (and sleeps) of the current or last operation
    last,       \* the last completed operation and what it returned or raised
    call,       \* the blocking wait or stream in progress
    clock       \* time.time() - start_time of the wait in progress

vars == <<mux, name, working_dir, ensuring, script, windows, services, issued, last, call, clock>>

Names(reg) == {reg[i].name : i \in DOMAIN reg}

Lookup(reg, n) == reg[CHOOSE i \in DOMAIN reg : reg[i].name = n]

Values(reg) == [i \in DOMAIN reg |-> reg[i].id]

\* What a test harness notes of a pattern wait: whether a capture was taken
\* (polled), whether one was taken later than the timeout (late), whether
\* the pattern appeared in one (hit), when the pattern was written to the
\* window (wrote: "never", "before" the call, "intime" at an elapsed time
\* below the timeout, "after" otherwise) and whether a capture was taken
\* after that (reread); of a readiness wait, the pattern waits made and
\* what each returned (waits).
NoNotes ==
    [polled |-> FALSE, late |-> FALSE, hit |-> FALSE, wrote |-> "never",
     reread |-> FALSE, waits |-> <<>>]


\* A completed operation: its name, the window, service or session it was
\* given, the error it raised ("" if none) and what it returned: a boolean
\* (flag), a window_id (id), lines or names (out), the lines of each
\* service or window (logs), or the windows list_windows found (listed);
\* of monitor_logs also the pattern list it was given (patterns) and the
\* scroll-back of every pane when it was called (seen); again says that
\* the call repeats the completed call before it (the same session for a
\* constructor, the same patterns over the same scroll-back for
\* monitor_logs).
Done(op, arg, err) ==
    [op |-> op, arg |-> arg, err |-> err, pattern |-> "", timeout |-> 0,
     flag |-> FALSE, id |-> Id("", "", 0), out |-> <<>>, logs |-> <<>>,
     listed |-> <<>>, patterns |-> <<>>, seen |-> EmptyMux.buf,
     again |-> FALSE, notes |-> NoNotes]

\* No operation has completed since the blocking call in progress began.
Running == Done("running", "", "")

NoCall ==
    [op |-> "none", win |-> "", pattern |-> "", timeout |-> 0, interval |-> 0,
     wake |-> 0, pc |-> "", idx |-> 0, ready |-> <<>>, initial |-> <<>>,
     last_output |-> <<>>, started |-> FALSE, yielded |-> <<>>,
     notes |-> NoNotes]

Idle == call.op = "none"

Waiting == call.op \in {"wait_for_pattern", "wait_for_change", "wait_for_ready"}

\* The calling thread is inside time.sleep (or suspended at a yield).
Sleeping == (Waiting /\ call.pc = "poll" /\ clock < call.wake) \/ call.op = "stream_output"

\* ------------------------------------------------- TerminalSession.__init__
EnsureAlways(m, n) ==
    LET r == TmuxNewSession(m, n)
    IN  [m |-> r.m,
         cmds |-> <<Cmd("has-session", SessionTarget(n), ""),
                    Cmd("new-session", SessionTarget(n), "-d")>>]

EnsureNever(m, n) ==
    [m |-> m, cmds |-> <<Cmd("has-session", SessionTarget(n), "")>>]

\* _ensure_session: probe, and create the session only if the probe fails.
EnsureSession(m, n) ==
    IF ~TmuxHasSession(m, n)
    THEN [m |-> TmuxNewSession(m, n).m,
          cmds |-> <<Cmd("has-session", SessionTarget(n), ""),
                     Cmd("new-session", SessionTarget(n), "-d")>>]
    ELSE [m |-> m, cmds |-> <<Cmd("has-session", SessionTarget(n), "")>>]

\* TerminalSession(n, d): a new handle (and orchestrator) for session n with
\* working directory d: empty registry, no services.
ConstructIn(n, d) ==
    /\ Idle
    /\ WithinPanes(EnsureSession(mux, n).m)
    /\ LET e == EnsureSession(mux, n)
       IN  /\ mux' = StartIn(mux, e.m, d)
           /\ issued' = e.cmds
    /\ name' = n
    /\ working_dir' = d
    /\ windows' = <<>>
    /\ services' = <<>>
    /\ last' = [Done("init", n, "") EXCEPT
                    !.again = (last.op = "init" /\ last.arg = n)]
    /\ UNCHANGED <<ensuring, script, call, clock>>

\* TerminalSession(n): working_dir defaults to "."
Construct(n) == ConstructIn(n, HereDir)

\* TerminalSession(n, d) when the probe fails and tmux then refuses to create
\* the session (new-session exits non-zero): _ensure_session ignores the
\* result, and the constructor returns a handle for a session that is not
\* there.
ConstructRefused(n, d) ==
    /\ Idle
    /\ ~TmuxHasSession(mux, n)
    /\ issued' = EnsureSession(mux, n).cmds
    /\ name' = n
    /\ working_dir' = d
    /\ windows' = <<>>
    /\ services' = <<>>
    /\ last' = Done("init", n, "")
    /\ UNCHANGED <<mux, ensuring, script, call, clock>>

\* ------------------------------------------------------------ send_keys
KeyMapReturnRaw(k) == IF k = "Enter" THEN "C-m" ELSE k

\* `key_map` and `if keys in key_map: keys = key_map[keys]`
KeyMap(k) ==
    CASE k = "Enter" -> "C-m"
      [] k = "Return" -> "C-m"
      [] k = "Tab" -> "Tab"
      [] k = "Space" -> "Space"
      [] k = "C-c" -> "C-c"
      [] k = "C-d" -> "C-d"
      [] k = "C-z" -> "C-z"
      [] k = "C-l" -> "C-l"
      [] k = "Escape" -> "Escape"
      [] OTHER -> k

\* The characters of the key strings of the model.
Chars(k) ==
    CASE k = "run" -> <<"r", "u", "n">>
      [] k = "a b" -> <<"a", " ", "b">>
      [] k = "C-m" -> <<"C", "-", "m">>
      [] k = "C-c" -> <<"C", "-", "c">>
      [] k = "C-d" -> <<"C", "-", "d">>
      [] k = "C-z" -> <<"C", "-", "z">>
      [] k = "C-l" -> <<"C", "-", "l">>
      [] k = "Tab" -> <<"T", "a", "b">>
      [] k = "Space" -> <<"S", "p", "a", "c", "e">>
      [] k = "Escape" -> <<"E", "s", "c", "a", "p", "e">>
      [] k = "enter" -> <<"e", "n", "t", "e", "r">>
      [] k = "Enter" -> <<"E", "n", "t", "e", "r">>
      [] k = "Return" -> <<"R", "e", "t", "u", "r", "n">>
      [] k = "" -> <<>>
      [] OTHER -> <<k>>

LiteralKey(c) == IF c = " " THEN "Space" ELSE IF c = "\n" THEN "Enter" ELSE c

\* The send-keys commands of send_keys(window_name, keys, literal) for a
\* registered window.
SendKeysCmds(reg, wn, keys, literal) ==
    LET id == Lookup(reg, wn).id
        k == KeyMap(keys)
    IN  IF literal
        THEN [i \in 1..Len(Chars(k)) |-> Cmd("send-keys", id, LiteralKey(Chars(k)[i]))]
        ELSE <<Cmd("send-keys", id, k)>>

SendKeys(wn, keys, literal) ==
    /\ Idle
    /\ IF wn \notin Names(windows)
       THEN /\ issued' = <<>>
            /\ last' = Done("send_keys", wn, "ValueError")
       ELSE /\ issued' = SendKeysCmds(windows, wn, keys, literal)
            /\ last' = Done("send_keys", wn, "")
    /\ UNCHANGED <<mux, name, working_dir, ensuring, script, windows, services, call, clock>>

\* The key arguments of the model: the nine names of key_map, and strings
\* that are not in it.
KeySymbols == {"Enter", "Return", "Tab", "Space", "C-c", "C-d", "C-z", "C-l", "Escape"}
RawKeys == {"run", "a b", "enter", ""}

\* ------------------------------------------------------------ add_window
SplitFlagSwapped(direction) == IF direction = "vertical" THEN "-h" ELSE "-v"

\* `split_flag = "-v" if split_direction == "vertical" else "-h"`
SplitFlag(direction) == IF direction = "vertical" THEN "-v" ELSE "-h"

\* The branch of add_window that creates the window or pane: the new
\* multiplexer state, the window_id and the commands issued.
CreateWindow(m, sess, reg, wn, split, direction) ==
    IF split /\ reg # <<>>
    THEN LET last_window == Last(Values(reg))
             m2 == TmuxSplitWindow(m, last_window).m
             panes == TmuxListPanes(m2, sess)
             pane_id == IF panes = <<>> THEN 0 ELSE Last(panes)
         IN  [m |-> m2, id |-> PaneRef(sess, pane_id),
              cmds |-> <<Cmd("split-window", last_window, SplitFlag(direction)),
                         Cmd("list-panes", SessionTarget(sess), "")>>]
    ELSE [m |-> TmuxNewWindow(m, sess, wn).m, id |-> NameId(sess, wn),
          cmds |-> <<Cmd("new-window", SessionTarget(sess), wn)>>]

StartCmdsEnterFirst(reg, wn, command) ==
    IF command # ""
    THEN SendKeysCmds(reg, wn, "Enter", FALSE) \o SendKeysCmds(reg, wn, command, FALSE)
    ELSE <<>>

\* `if command: self.send_keys(name, command); self.send_keys(name, "Enter")`
StartCmds(reg, wn, command) ==
    IF command # ""
    THEN SendKeysCmds(reg, wn, command, FALSE) \o SendKeysCmds(reg, wn, "Enter", FALSE)
    ELSE <<>>

RegisterAlone(reg, wn, id) == <<[name |-> wn, id |-> id]>>

\* `self.windows[name] = window_id` for a name the registry does not hold
Register(reg, wn, id) == Append(reg, [name |-> wn, id |-> id])

AddWindowDuplicateOk(reg, wn) == FALSE

\* `if name in self.windows: raise ValueError`
AddWindowRejects(reg, wn) == wn \in Names(reg)

AddWindow(wn, command, split, direction) ==
    /\ Idle
    /\ AddWindowRejects(windows, wn)
          \/ WithinPanes(CreateWindow(mux, name, windows, wn, split, direction).m)
    /\ IF AddWindowRejects(windows, wn)
       THEN /\ issued' = <<>>
            /\ last' = Done("add_window", wn, "ValueError")
            /\ UNCHANGED <<mux, windows>>
       ELSE LET c == CreateWindow(mux, name, windows, wn, split, direction)
                reg == Register(windows, wn, c.id)
            IN  /\ mux' = StartIn(mux, c.m, working_dir)
                /\ windows' = reg
                /\ issued' = c.cmds \o StartCmds(reg, wn, command)
                /\ last' = [Done("add_window", wn, "") EXCEPT !.id = c.id]
    /\ UNCHANGED <<name, working_dir, ensuring, script, services, call, clock>>

\* ------------------------------------------------------- capture_output
CaptureOutput(wn, lines) ==
    /\ Idle
    /\ IF wn \notin Names(windows)
       THEN /\ issued' = <<>>
            /\ last' = Done("capture_output", wn, "ValueError")
       ELSE LET id == Lookup(windows, wn).id
            IN  /\ issued' = <<CmdN("capture-pane", id, lines)>>
                /\ last' = [Done("capture_output", wn, "") EXCEPT
                                !.out = TmuxCapturePane(mux, id, lines)]
    /\ UNCHANGED <<mux, name, working_dir, ensuring, script, windows, services, call, clock>>

\* ------------------------------------------------- kill_window and kill
WithoutAny(reg, wn) == <<>>

\* `del self.windows[window_name]`
Without(reg, wn) == SelectSeq(reg, LAMBDA e : e.name # wn)

KillWindow(wn) ==
    /\ Idle
    /\ IF wn \notin Names(windows)
       THEN /\ issued' = <<>>
            /\ last' = Done("kill_window", wn, "ValueError")
            /\ UNCHANGED <<mux, windows>>
       ELSE LET id == Lookup(windows, wn).id
            IN  /\ mux' = TmuxKillWindow(mux, id).m
                /\ windows' = Without(windows, wn)
                /\ issued' = <<Cmd("kill-window", id, "")>>
                /\ last' = Done("kill_window", wn, "")
    /\ UNCHANGED <<name, working_dir, ensuring, script, services, call, clock>>

SessionKillSpared(m, sess) ==
    [m |-> m, cmds |-> <<Cmd("kill-session", SessionTarget(sess), "")>>]

\* `self._run_tmux("kill-session", "-t", self.name)`
SessionKill(m, sess) ==
    [m |-> TmuxKillSession(m, sess).m, cmds |-> <<Cmd("kill-session", SessionTarget(sess), "")>>]

Kill ==
    /\ Idle
    /\ mux' = SessionKill(mux, name).m
    /\ issued' = SessionKill(mux, name).cmds
    /\ windows' = <<>>
    /\ last' = Done("kill", name, "")
    /\ UNCHANGED <<name, working_dir, ensuring, script, services, call, clock>>

\* ----------------------------------------------------------- list_windows
\* line.split(":") of a window name of the model.
Fields(wname) == CASE wname = "a:b" -> <<"a", "b">> [] OTHER -> <<wname>>

\* list-windows -t n -F "#{window_name}:#{window_id}:#{window_active}": one
\* line per window of session n, in window order, each given as the parts
\* line.split(":") makes of it; nothing when the session does not exist.
TmuxListWindows(m, n) ==
    IF n \notin m.sessions THEN <<>>
    ELSE LET ws == SelectSeq(m.wins, LAMBDA w : w.sess = n)
         IN  [i \in DOMAIN ws |->
                 Fields(ws[i].wname)
                     \o <<ToString(ws[i].wid), IF m.cur[n] = ws[i].wid THEN "1" ELSE "0">>]

\* `{"name": parts[0], "id": parts[1], "active": len(parts) > 2 and parts[2] == "1"}`
ParseWindow(parts) ==
    [name |-> parts[1], id |-> parts[2], active |-> Len(parts) > 2 /\ parts[3] = "1"]

ListWindows ==
    /\ Idle
    /\ issued' = <<Cmd("list-windows", SessionTarget(name), "")>>
    /\ LET lines == TmuxListWindows(mux, name)
       IN  last' = [Done("list_windows", name, "") EXCEPT
                       !.listed = [i \in DOMAIN lines |-> ParseWindow(lines[i])]]
    /\ UNCHANGED <<mux, name, working_dir, ensuring, script, windows, services, call, clock>>

\* ---------------------------------------------------------------- _run_tmux
\* subprocess.run(["tmux", ...]) finds no tmux executable: it raises, and
\* neither _run_tmux nor any of its callers handles the exception.
SpawnError == "FileNotFoundError"

\* The operations of a handle that invoke tmux.
ToolOps == {"init", "add_window", "send_keys", "capture_output", "kill_window", "kill"}

\* Operation op, given window name wn, gets as far as its first tmux
\* invocation: the checks that raise ValueError come first.
ReachesTmux(op, reg, wn) ==
    CASE op = "add_window" -> wn \notin Names(reg)
      [] op \in {"send_keys", "capture_output", "kill_window"} -> wn \in Names(reg)
      [] OTHER -> TRUE

\* An operation is called while no tmux executable can be found: its first
\* invocation raises before any assignment that follows it, and the
\* exception leaves the operation (a constructor then returns no handle).
ToolMissing(op, wn) ==
    /\ Idle
    /\ ReachesTmux(op, windows, wn)
    /\ issued' = <<>>
    /\ last' = Done(op, IF op \in {"init", "kill"} THEN name ELSE wn, SpawnError)
    /\ UNCHANGED <<mux, name, working_dir, ensuring, script, windows, services, call, clock>>

\* -------------------------------------------------------- wait_for_pattern
\* The pattern occurs in the rows, whatever the case of its letters.
Appears(pattern, rows) ==
    \E i \in DOMAIN rows : rows[i] # "" /\
        \E x \in {rows[i], Fold(rows[i])} : x \in {pattern, Fold(pattern)}

\* The pane whose output a wait on window wn sees.
WatchedPane(m, reg, wn) == ResolvePane(m, Lookup(reg, wn).id)

\* A pattern wait on window wn begins: start_time = time.time().
BeginWait(c, wn, pattern, timeout, interval) ==
    LET present == Appears(pattern, TmuxCapturePane(mux, Lookup(windows, wn).id, DefaultLines))
    IN  [c EXCEPT !.win = wn, !.pattern = pattern, !.timeout = timeout,
                  !.interval = interval, !.wake = 0, !.pc = "poll",
                  !.notes = [NoNotes EXCEPT !.wrote = IF present THEN "before" ELSE "never",
                                            !.waits = c.notes.waits]]

WaitForPattern(wn, pattern, timeout, interval) ==
    /\ Idle
    /\ IF wn \notin Names(windows)
       THEN /\ last' = Done("wait_for_pattern", wn, "ValueError")
            /\ UNCHANGED <<call, clock>>
       ELSE /\ call' = BeginWait([NoCall EXCEPT !.op = "wait_for_pattern"],
                                 wn, pattern, timeout, interval)
            /\ clock' = 0
            /\ last' = Running
    /\ issued' = <<>>
    /\ UNCHANGED <<mux, name, working_dir, ensuring, script, windows, services>>

LoopGuardInclusive(elapsed, timeout) == elapsed <= timeout

\* `while time.time() - start_time < timeout`
LoopGuard(elapsed, timeout) == elapsed < timeout

Capture(c) == TmuxCapturePane(mux, Lookup(windows, c.win).id, DefaultLines)

CaptureCmd(c) == CmdN("capture-pane", Lookup(windows, c.win).id, DefaultLines)

Seen(c, rows) ==
    [c.notes EXCEPT !.polled = TRUE,
                    !.late = @ \/ clock > c.timeout,
                    !.hit = @ \/ Appears(c.pattern, rows),
                    !.reread = @ \/ c.notes.wrote # "never"]

\* A wait returns `result`.
Returned(c, result) ==
    [Done(c.op, c.win, "") EXCEPT !.pattern = c.pattern, !.timeout = c.timeout,
                                  !.flag = result, !.notes = c.notes]

TimeoutResultTrue(c) == TRUE

\* `return False` after the loop
TimeoutResult(c) == FALSE

\* One pass of the loop of wait_for_pattern, from the loop test to the sleep
\* or the return.
PatternPoll(late) ==
    /\ call.op = "wait_for_pattern"
    /\ clock >= call.wake
    /\ IF LoopGuard(clock, call.timeout)
       THEN LET rows == Capture(call)
                c == [call EXCEPT !.notes = Seen(call, rows)]
            IN  /\ issued' = Append(issued, CaptureCmd(call))
                /\ IF Search(call.pattern, rows)
                   THEN /\ call' = NoCall
                        /\ last' = Returned(c, TRUE)
                   ELSE /\ call' = [c EXCEPT !.wake = clock + call.interval + late]
                        /\ UNCHANGED last
       ELSE /\ call' = NoCall
            /\ last' = Returned(call, TimeoutResult(call))
            /\ UNCHANGED issued
    /\ UNCHANGED <<mux, name, working_dir, ensuring, script, windows, services, clock>>

\* --------------------------------------------------------- wait_for_change
DiffersInLength(current, initial) == Len(current) # Len(initial)

\* `if current != initial`
Differs(current, initial) == current # initial

WaitForChange(wn, timeout, interval, late) ==
    /\ Idle
    /\ IF wn \notin Names(windows)
       THEN /\ last' = Done("wait_for_change", wn, "ValueError")
            /\ issued' = <<>>
            /\ UNCHANGED <<call, clock>>
       ELSE LET c0 == [NoCall EXCEPT !.op = "wait_for_change", !.win = wn,
                                     !.timeout = timeout, !.interval = interval,
                                     !.pc = "poll"]
                c == [c0 EXCEPT !.initial = Capture(c0), !.wake = interval + late]
            IN  /\ issued' = <<CaptureCmd(c0)>>
                /\ clock' = 0
                /\ IF LoopGuard(0, timeout)
                   THEN /\ call' = c
                        /\ last' = Running
                   ELSE /\ call' = NoCall
                        /\ last' = Returned(c, TimeoutResult(c))
    /\ UNCHANGED <<mux, name, working_dir, ensuring, script, windows, services>>

\* The thread wakes from time.sleep(interval): capture, compare, loop test.
ChangePoll(late) ==
    /\ call.op = "wait_for_change"
    /\ clock >= call.wake
    /\ LET rows == Capture(call)
           c == [call EXCEPT !.notes = [Seen(call, rows) EXCEPT
                                           !.hit = @ \/ rows # call.initial]]
       IN  /\ issued' = Append(issued, CaptureCmd(call))
           /\ IF Differs(rows, call.initial)
              THEN /\ call' = NoCall
                   /\ last' = Returned(c, TRUE)
              ELSE IF LoopGuard(clock, call.timeout)
              THEN /\ call' = [c EXCEPT !.wake = clock + call.interval + late]
                   /\ UNCHANGED last
              ELSE /\ call' = NoCall
                   /\ last' = Returned(c, TimeoutResult(c))
    /\ UNCHANGED <<mux, name, working_dir, ensuring, script, windows, services, clock>>

\* ----------------------------------------------------------- stream_output
\* Calling the generator function runs none of its body.
StreamOutput(wn) ==
    /\ Idle
    /\ call' = [NoCall EXCEPT !.op = "stream_output", !.win = wn]
    /\ issued' = <<>>
    /\ last' = Running
    /\ UNCHANGED <<mux, name, working_dir, ensuring, script, windows, services, clock>>

NonEmpty(ls) == SelectSeq(ls, LAMBDA l : l # "")

\* `last_output.split("\n") if last_output else []`
LastLines(last_output) == IF last_output = <<>> THEN <<>> ELSE SplitLines(last_output)

NewLinesWhole(last_output, current) ==
    IF current # last_output THEN NonEmpty(SplitLines(current)) ELSE <<>>

\* The lines one pass of the loop yields: current_lines[len(last_lines):],
\* the empty ones skipped.
NewLines(last_output, current) ==
    IF current # last_output
    THEN LET n == Len(LastLines(last_output))
             cur == SplitLines(current)
         IN  NonEmpty(SubSeq(cur, n + 1, Len(cur)))
    ELSE <<>>

\* The consumer asks for the next lines: the first time the body starts with
\* the registry test; then one pass of the loop.
StreamPoll ==
    /\ call.op = "stream_output"
    /\ IF ~call.started /\ call.win \notin Names(windows)
       THEN /\ call' = NoCall
            /\ last' = Done("stream_output", call.win, "ValueError")
            /\ UNCHANGED issued
       ELSE LET id == Lookup(windows, call.win).id
                current == TmuxCapturePane(mux, id, StreamLines)
            IN  /\ issued' = <<CmdN("capture-pane", id, StreamLines)>>
                /\ call' = [call EXCEPT
                               !.started = TRUE,
                               !.yielded = @ \o NewLines(call.last_output, current),
                               !.last_output = current]
                /\ UNCHANGED last
    /\ UNCHANGED <<mux, name, working_dir, ensuring, script, windows, services, clock>>

\* The consumer drops the generator.
StreamStop ==
    /\ call.op = "stream_output"
    /\ call' = NoCall
    /\ last' = [Done("stream_output", call.win, "") EXCEPT !.out = call.yielded]
    /\ UNCHANGED <<mux, name, working_dir, ensuring, script, windows, services, issued, clock>>

\* ------------------------------------------------ MultiServiceOrchestrator
ServiceBornReady(n, command, id, pattern) ==
    [name |-> n, command |-> command, window_id |-> id,
     ready_pattern |-> pattern, ready |-> TRUE]

\* `self.services[name] = {"command": ..., "window_id": ..., "ready_pattern": ..., "ready": False}`
Service(n, command, id, pattern) ==
    [name |-> n, command |-> command, window_id |-> id,
     ready_pattern |-> pattern, ready |-> FALSE]

\* self.services[name] = {...}: a new key goes last, an old key keeps its place.
Put(svcs, sv) ==
    IF sv.name \in Names(svcs)
    THEN [i \in DOMAIN svcs |-> IF svcs[i].name = sv.name THEN sv ELSE svcs[i]]
    ELSE Append(svcs, sv)

AddService(n, command, pattern) ==
    /\ Idle
    /\ AddWindowRejects(windows, n)
          \/ WithinPanes(CreateWindow(mux, name, windows, n, FALSE, "vertical").m)
    /\ IF AddWindowRejects(windows, n)
       THEN /\ issued' = <<>>
            /\ last' = Done("add_service", n, "ValueError")
            /\ UNCHANGED <<mux, windows, services>>
       ELSE LET c == CreateWindow(mux, name, windows, n, FALSE, "vertical")
                reg == Register(windows, n, c.id)
            IN  /\ mux' = StartIn(mux, c.m, working_dir)
                /\ windows' = reg
                /\ issued' = c.cmds \o StartCmds(reg, n, command)
                /\ services' = Put(services, Service(n, command, c.id, pattern))
                /\ last' = Done("add_service", n, "")
    /\ UNCHANGED <<name, working_dir, ensuring, script, call, clock>>

StartAllRelaunch(svcs, sess) ==
    [i \in DOMAIN svcs |-> Cmd("send-keys", svcs[i].window_id, svcs[i].command)]

\* `for name in self.services: time.sleep(stagger)`
StartAllSteps(svcs, sess) ==
    [i \in DOMAIN svcs |-> Cmd("sleep", SessionTarget(sess), "stagger")]

\* start_all only sleeps, once per service.
StartAll ==
    /\ Idle
    /\ issued' = StartAllSteps(services, name)
    /\ last' = Done("start_all", "", "")
    /\ UNCHANGED <<mux, name, working_dir, ensuring, script, windows, services, call, clock>>

TruthyAlways(pattern) == TRUE

\* `if config["ready_pattern"]:`
Truthy(pattern) == pattern \notin {NoPattern, ""}

NextOnlyFirst(svcs, i) ==
    LET c == {j \in DOMAIN svcs : j > i /\ Truthy(svcs[j].ready_pattern)}
    IN  IF c = {} \/ i # 0 THEN 0 ELSE CHOOSE j \in c : \A k \in c : j <= k

NextFromLast(svcs, i) ==
    LET c == {j \in DOMAIN svcs : j > i /\ Truthy(svcs[j].ready_pattern)}
    IN  IF c = {} THEN 0 ELSE CHOOSE j \in c : \A k \in c : k <= j

\* The next service after position i that has a pattern, 0 if none.
NextWithPattern(svcs, i) ==
    LET c == {j \in DOMAIN svcs : j > i /\ Truthy(svcs[j].ready_pattern)}
    IN  IF c = {} THEN 0 ELSE CHOOSE j \in c : \A k \in c : j <= k

WaitForReady(timeout) ==
    /\ Idle
    /\ call' = [NoCall EXCEPT !.op = "wait_for_ready", !.timeout = timeout,
                              !.interval = DefaultInterval, !.pc = "next"]
    /\ issued' = <<>>
    /\ last' = Running
    /\ clock' = 0
    /\ UNCHANGED <<mux, name, working_dir, ensuring, script, windows, services>>

\* The loop over the services moves on: to the pattern wait of the next
\* service that has a pattern, or to `return ready`.
ReadyNext ==
    /\ call.op = "wait_for_ready"
    /\ call.pc = "next"
    /\ LET j == NextWithPattern(services, call.idx)
       IN  IF j = 0
           THEN /\ call' = NoCall
                /\ last' = [Done("wait_for_ready", "", "") EXCEPT
                                !.timeout = call.timeout, !.out = call.ready,
                                !.notes = call.notes]
                /\ UNCHANGED clock
           ELSE IF services[j].name \notin Names(windows)
           THEN /\ call' = NoCall
                /\ last' = [Done("wait_for_ready", services[j].name, "ValueError")
                               EXCEPT !.timeout = call.timeout, !.notes = call.notes]
                /\ UNCHANGED clock
           ELSE /\ call' = BeginWait([call EXCEPT !.idx = j], services[j].name,
                                     services[j].ready_pattern, call.timeout,
                                     DefaultInterval)
                /\ clock' = 0
                /\ UNCHANGED last
    /\ UNCHANGED <<mux, name, working_dir, ensuring, script, windows, services, issued>>

Waited(c, result) ==
    Append(c.notes.waits,
           [name |-> c.win, result |-> result, before |-> c.notes.wrote = "before"])

MarkReadyNever(svcs, i) == svcs

\* `config["ready"] = True`
MarkReady(svcs, i) == [svcs EXCEPT ![i].ready = TRUE]

\* One pass of the loop of the pattern wait of service call.idx.
ReadyPoll(late) ==
    /\ call.op = "wait_for_ready"
    /\ call.pc = "poll"
    /\ clock >= call.wake
    /\ IF LoopGuard(clock, call.timeout)
       THEN LET rows == Capture(call)
                c == [call EXCEPT !.notes = Seen(call, rows)]
            IN  /\ issued' = Append(issued, CaptureCmd(call))
                /\ IF Search(call.pattern, rows)
                   THEN /\ services' = MarkReady(services, call.idx)
                        /\ call' = [c EXCEPT !.ready = Append(@, call.win),
                                             !.pc = "next",
                                             !.notes.waits = Waited(c, TRUE)]
                   ELSE /\ call' = [c EXCEPT !.wake = clock + call.interval + late]
                        /\ UNCHANGED services
       ELSE LET r == TimeoutResult(call)
            IN  /\ call' = [call EXCEPT !.pc = "next",
                                        !.ready = IF r THEN Append(@, call.win) ELSE @,
                                        !.notes.waits = Waited(call, r)]
                /\ services' = IF r THEN MarkReady(services, call.idx) ELSE services
                /\ UNCHANGED issued
    /\ UNCHANGED <<mux, name, working_dir, ensuring, script, windows, last, clock>>

\* The position of the first service send_keys does not find, 0 if none.
FirstUnknown(svcs, reg) ==
    LET c == {i \in DOMAIN svcs : svcs[i].name \notin Names(reg)}
    IN  IF c = {} THEN 0 ELSE CHOOSE i \in c : \A k \in c : i <= k

Interrupts(svcs, reg, n) ==
    [i \in 1..n |-> Cmd("send-keys", Lookup(reg, svcs[i].name).id, KeyMap("C-c"))]

Grace(sess) == <<CmdN("sleep", SessionTarget(sess), GraceSeconds)>>

ShutdownCmdsKillFirst(svcs, reg, sess, graceful) ==
    IF graceful
    THEN SessionKill(mux, sess).cmds \o Interrupts(svcs, reg, Len(svcs)) \o Grace(sess)
    ELSE SessionKill(mux, sess).cmds

\* What shutdown_all issues when every service is in the registry.
ShutdownCmds(svcs, reg, sess, graceful) ==
    IF graceful
    THEN Interrupts(svcs, reg, Len(svcs)) \o Grace(sess) \o SessionKill(mux, sess).cmds
    ELSE SessionKill(mux, sess).cmds

ShutdownAll(graceful) ==
    /\ Idle
    /\ LET k == FirstUnknown(services, windows)
       IN  IF graceful /\ k # 0
           THEN /\ issued' = Interrupts(services, windows, k - 1)
                /\ last' = [Done("shutdown_all", services[k].name, "ValueError") EXCEPT
                                !.flag = graceful]
                /\ UNCHANGED <<mux, windows>>
           ELSE /\ issued' = ShutdownCmds(services, windows, name, graceful)
                /\ mux' = SessionKill(mux, name).m
                /\ windows' = <<>>
                /\ last' = [Done("shutdown_all", "", "") EXCEPT !.flag = graceful]
    /\ UNCHANGED <<name, working_dir, ensuring, script, services, call, clock>>

\* ------------------------------------------------------------ monitor_logs
\* `if patterns is None: patterns = [...]`
DefaultPatterns == <<"ERROR", "FATAL", "CRASH", "Exception">>

\* The pattern lists monitor_logs is called with.
PatternLists ==
    {DefaultPatterns, <<"error">>, <<"ERROR", "disk">>, <<"fatal">>, <<>>}

\* The pieces of a line a pattern of the model can occur as.
Parts(line) ==
    CASE line = "ERROR: disk full" -> {"ERROR: disk full", "ERROR", "disk", "full"}
      [] line = "" -> {}
      [] OTHER -> {line}

LineSearchSensitive(pattern, line) == pattern \in Parts(line)

\* re.search(pattern, line, re.IGNORECASE)
LineSearch(pattern, line) == \E x \in Parts(line) : Fold(x) = Fold(pattern)

MatchedUnseen(patterns, lines) ==
    IF last.op = "monitor_logs" THEN <<>>
    ELSE SelectSeq(lines, LAMBDA l : \E k \in DOMAIN patterns : LineSearch(patterns[k], l))

\* matches[name]: for each pattern in turn, the lines of the capture it
\* matches.
RECURSIVE Matched(_, _)
Matched(patterns, lines) ==
    IF patterns = <<>> THEN <<>>
    ELSE SelectSeq(lines, LAMBDA l : LineSearch(Head(patterns), l))
             \o Matched(Tail(patterns), lines)

\* monitor_logs: one capture per service, in table order; capture_output
\* raises for the first service the registry does not hold.
MonitorLogs(patterns) ==
    /\ Idle
    /\ LET k == FirstUnknown(services, windows)
           n == IF k = 0 THEN Len(services) ELSE k - 1
           id(i) == Lookup(windows, services[i].name).id
       IN  /\ issued' = [i \in 1..n |-> CmdN("capture-pane", id(i), DefaultLines)]
           /\ last' = IF k # 0
                      THEN Done("monitor_logs", services[k].name, "ValueError")
                      ELSE [Done("monitor_logs", "", "") EXCEPT
                               !.patterns = patterns,
                               !.seen = mux.buf,
                               !.again = (last.op = "monitor_logs" /\ last.err = ""
                                          /\ last.patterns = patterns
                                          /\ last.seen = mux.buf),
                               !.logs = [i \in 1..n |->
                                   [name |-> services[i].name,
                                    lines |-> Matched(patterns,
                                        SplitLines(TmuxCapturePane(mux, id(i), DefaultLines)))]]]
    /\ UNCHANGED <<mux, name, working_dir, ensuring, script, windows, services, call, clock>>

\* ---------------------------------------------------------------- snapshot
\* `for name in self.windows: snapshot[name] = self.capture_output(name)`
Snapshot ==
    /\ Idle
    /\ issued' = [i \in DOMAIN windows |->
                     CmdN("capture-pane", windows[i].id, DefaultLines)]
    /\ last' = [Done("snapshot", name, "") EXCEPT
                    !.logs = [i \in DOMAIN windows |->
                                 [name |-> windows[i].name,
                                  lines |-> TmuxCapturePane(mux, windows[i].id, DefaultLines)]]]
    /\ UNCHANGED <<mux, name, working_dir, ensuring, script, windows, services, call, clock>>

\* ------------------------------------------------------------ environment
TotalLines(m) == SeqSum([p \in DOMAIN m.buf |-> Len(m.buf[p])])

\* Panes of windows the handle's users created (not a session's first window).
ProcessPanes(m) ==
    UNION {Range(m.wins[i].panes) \ {m.wins[i].wid} : i \in DOMAIN m.wins}
        \cup {m.wins[i].wid : i \in {j \in DOMAIN m.wins : m.wins[j].wname # ShellName}}

\* The harness notes when the pattern of the wait in progress is written.
Noted(c, p, line) ==
    IF /\ Waiting
       /\ c.win \in Names(windows)
       /\ WatchedPane(mux, windows, c.win) = p
       /\ c.notes.wrote = "never"
       /\ Appears(c.pattern, <<line>>)
    THEN [c EXCEPT !.notes.wrote = IF clock < c.timeout THEN "intime" ELSE "after"]
    ELSE c

\* The process of a pane prints a line, while the controlling thread is
\* between operations or asleep.
Emit(p, line) ==
    /\ Idle \/ Sleeping
    /\ p \in ProcessPanes(mux)
    /\ TotalLines(mux) < MaxLines
    /\ mux' = [mux EXCEPT !.buf[p] = Append(@, line)]
    /\ call' = Noted(call, p, line)
    /\ UNCHANGED <<name, working_dir, ensuring, script, windows, services, issued, last, clock>>

\* A window of the session is destroyed outside the handle: its shell exits,
\* or another client of the tmux server kills it.
WindowClosed(p) ==
    /\ Idle \/ Sleeping
    /\ p \in LivePanes(mux)
    /\ mux' = TmuxKillWindow(mux, PaneRef(name, p)).m
    /\ UNCHANGED <<name, working_dir, ensuring, script, windows, services, issued, last, call, clock>>

\* Names of windows that other clients of the tmux server create.
OutsideNames == {"logs", "a:b"}

\* A window is created in the session outside the handle (another client
\* runs new-window -n wn), in the session's directory.
WindowOpened(wn) ==
    /\ Idle \/ Sleeping
    /\ name \in mux.sessions
    /\ WithinPanes(TmuxNewWindow(mux, name, wn).m)
    /\ mux' = StartIn(mux, TmuxNewWindow(mux, name, wn).m, mux.root[name])
    /\ UNCHANGED <<name, working_dir, ensuring, script, windows, services, issued, last, call, clock>>

\* Time passes while a wait sleeps.
Tick ==
    /\ Waiting
    /\ Sleeping
    /\ clock' = clock + 1
    /\ UNCHANGED <<mux, name, working_dir, ensuring, script, windows, services, issued, last, call>>

\* ---------------------------------------------------- run_e2e_tests.main
\* Where main stands (pc), the window it is at (step, an index of
\* ScriptWindows), the time spent in the health check or the monitoring loop
\* in progress (elapsed), what the health checks made so far returned
\* (ready: backend_ready, frontend_ready, browser_ready, "yes" or "no") and
\* what main returned (ret, -1 while it runs).
NoScript == [pc |-> "start", step |-> 0, elapsed |-> 0, ready |-> <<>>, ret |-> -1]

\* Before the script is started, an earlier run has left its session behind.
StaleSession ==
    /\ script.pc = "start"
    /\ ~TmuxHasSession(mux, E2ESession)
    /\ mux' = StartIn(mux, TmuxNewSession(mux, E2ESession).m, BASE_DIR)
    /\ UNCHANGED <<name, working_dir, ensuring, script, windows, services, issued, last, call, clock>>

\* `subprocess.run(["tmux", "kill-session", "-t", "choiros-e2e"])`
ScriptCleanup ==
    /\ script.pc = "start"
    /\ mux' = TmuxKillSession(mux, E2ESession).m
    /\ issued' = <<Cmd("kill-session", SessionTarget(E2ESession), "")>>
    /\ script' = [script EXCEPT !.pc = "create"]
    /\ UNCHANGED <<name, working_dir, ensuring, windows, services, last, call, clock>>

\* `session = TerminalSession("choiros-e2e", str(BASE_DIR))`
ScriptCreate ==
    /\ script.pc = "create"
    /\ LET e == EnsureSession(mux, E2ESession)
       IN  /\ mux' = StartIn(mux, e.m, BASE_DIR)
           /\ issued' = e.cmds
    /\ name' = E2ESession
    /\ working_dir' = BASE_DIR
    /\ windows' = <<>>
    /\ services' = <<>>
    /\ last' = Done("init", E2ESession, "")
    /\ script' = [script EXCEPT !.pc = "add", !.step = 1]
    /\ UNCHANGED <<ensuring, call, clock>>

\* `session.add_window(name, command[, working_dir=...])` for the window main
\* is at; the health check of the window follows, or the monitoring loop
\* after the last one.
ScriptAddWindow ==
    /\ script.pc = "add"
    /\ LET w == ScriptWindows[script.step]
       IN  IF AddWindowRejects(windows, w.name)
           THEN /\ issued' = <<>>
                /\ last' = Done("add_window", w.name, "ValueError")
                /\ script' = [script EXCEPT !.pc = "raised"]
                /\ UNCHANGED <<mux, windows>>
           ELSE LET c == CreateWindow(mux, name, windows, w.name, FALSE, "vertical")
                    reg == Register(windows, w.name, c.id)
                    target_dir == IF w.dir # "" THEN w.dir ELSE working_dir
                IN  /\ mux' = StartIn(mux, c.m, target_dir)
                    /\ windows' = reg
                    /\ issued' = c.cmds \o StartCmds(reg, w.name, w.command)
                    /\ last' = [Done("add_window", w.name, "") EXCEPT !.id = c.id]
                    /\ script' = [script EXCEPT
                                     !.pc = IF w.check = "none" THEN "monitor" ELSE "health",
                                     !.elapsed = 0]
    /\ UNCHANGED <<name, working_dir, ensuring, services, call, clock>>

\* check_health_endpoint, one pass of its loop: while the time spent is
\* below the timeout the endpoint is asked; a 200 returns True, anything
\* else (another status, URLError, socket.timeout, ConnectionRefusedError)
\* costs the request and the sleep; at the timeout the check returns False,
\* and main returns 1 after killing the session or goes on, as the window
\* says.
ScriptHealth(up, cost) ==
    /\ script.pc = "health"
    /\ LET w == ScriptWindows[script.step]
       IN  script' =
              IF script.elapsed < HEALTH_CHECK_TIMEOUT
              THEN IF up
                   THEN [script EXCEPT !.pc = "add", !.step = @ + 1,
                                       !.ready = Append(@, "yes")]
                   ELSE [script EXCEPT !.elapsed = @ + cost]
              ELSE [script EXCEPT
                       !.pc = IF w.check = "abort" THEN "abort" ELSE "add",
                       !.step = IF w.check = "abort" THEN @ ELSE @ + 1,
                       !.ready = Append(@, "no")]
    /\ UNCHANGED <<mux, name, working_dir, ensuring, windows, services, issued, last, call, clock>>

\* `print(session.capture_output(name, lines=50)); session.kill(); return 1`
ScriptAbort ==
    /\ script.pc = "abort"
    /\ LET w == ScriptWindows[script.step]
       IN  IF w.name \notin Names(windows)
           THEN /\ issued' = <<>>
                /\ last' = Done("capture_output", w.name, "ValueError")
                /\ script' = [script EXCEPT !.pc = "raised"]
                /\ UNCHANGED <<mux, windows>>
           ELSE /\ mux' = SessionKill(mux, name).m
                /\ issued' = <<CmdN("capture-pane", Lookup(windows, w.name).id, 50)>>
                                 \o SessionKill(mux, name).cmds
                /\ windows' = <<>>
                /\ last' = Done("kill", name, "")
                /\ script' = [script EXCEPT !.pc = "done", !.ret = 1]
    /\ UNCHANGED <<name, working_dir, ensuring, services, call, clock>>

\* One pass of the monitoring loop: the output of the test window is
\* captured, and when list_windows shows a window named like it, captured
\* again and searched for the completion message; the loop ends on the
\* message or at TEST_TIMEOUT.
ScriptMonitor(cost) ==
    /\ script.pc = "monitor"
    /\ LET w == ScriptWindows[script.step]
           id == Lookup(windows, w.name).id
           lines == TmuxListWindows(mux, name)
           e2e_window == \E i \in DOMAIN lines : ParseWindow(lines[i]).name = w.name
           latest == TmuxCapturePane(mux, id, DefaultLines)
       IN  IF script.elapsed < TEST_TIMEOUT
           THEN /\ issued' = <<CmdN("capture-pane", id, 30),
                               Cmd("list-windows", SessionTarget(name), "")>>
                                 \o (IF e2e_window
                                     THEN <<CmdN("capture-pane", id, DefaultLines)>>
                                     ELSE <<>>)
                /\ script' =
                      IF e2e_window /\ "Test completed successfully" \in Range(latest)
                      THEN [script EXCEPT !.pc = "summary"]
                      ELSE [script EXCEPT !.elapsed = @ + cost]
           ELSE /\ script' = [script EXCEPT !.pc = "summary"]
                /\ UNCHANGED issued
    /\ UNCHANGED <<mux, name, working_dir, ensuring, windows, services, last, call, clock>>

\* The summary: the output of every window is captured and printed, the
\* windows are listed, and main returns 0; the session is left running.
ScriptSummary ==
    /\ script.pc = "summary"
    /\ issued' = [i \in DOMAIN ScriptWindows |->
                     CmdN("capture-pane", Lookup(windows, ScriptWindows[i].name).id,
                          IF i = Len(ScriptWindows) THEN 50 ELSE 30)]
                     \o <<Cmd("list-windows", SessionTarget(name), "")>>
    /\ LET lines == TmuxListWindows(mux, name)
       IN  last' = [Done("list_windows", name, "") EXCEPT
                       !.listed = [i \in DOMAIN lines |-> ParseWindow(lines[i])]]
    /\ script' = [script EXCEPT !.pc = "done", !.ret = 0]
    /\ UNCHANGED <<mux, name, working_dir, ensuring, windows, services, call, clock>>

\* ------------------------------------------- concurrent _ensure_session
\* The processes that construct a TerminalSession at the same time, each
\* running _ensure_session as two tmux invocations: the probe, then (if
\* the probe failed) the creation.
Controllers == {1, 2}

\* Where one controller stands: before the probe (idle), between the probe
\* and new-session (create), or returned (done); the session and directory
\* it was given, the error it raised, and whether tmux refused its
\* new-session (lost).
NoEnsure == [pc |-> "idle", n |-> "", dir |-> "", err |-> "", lost |-> FALSE]

CreateErrorChecked(ok) == IF ok THEN "" ELSE "CalledProcessError"

\* `self._run_tmux("new-session", ...)`: the result is not looked at.
CreateError(ok) == ""

\* `result = self._run_tmux("has-session", "-t", self.name)`
EnsureProbe(c, n, d) ==
    /\ ensuring[c].pc = "idle"
    /\ ensuring' = [ensuring EXCEPT ![c] =
                        [NoEnsure EXCEPT
                            !.pc = IF TmuxHasSession(mux, n) THEN "done" ELSE "create",
                            !.n = n, !.dir = d]]
    /\ UNCHANGED <<mux, name, working_dir, script, windows, services, issued, last, call, clock>>

\* `if result.returncode != 0: self._run_tmux("new-session", "-d", "-s",
\* self.name, "-c", str(self.working_dir))`
EnsureCreate(c) ==
    /\ ensuring[c].pc = "create"
    /\ LET e == ensuring[c]
           r == TmuxNewSession(mux, e.n)
       IN  /\ WithinPanes(r.m)
           /\ mux' = StartIn(mux, r.m, e.dir)
           /\ ensuring' = [ensuring EXCEPT ![c] =
                               [e EXCEPT !.pc = "done", !.err = CreateError(r.ok),
                                         !.lost = ~r.ok]]
    /\ UNCHANGED <<name, working_dir, script, windows, services, issued, last, call, clock>>

\* Every controller has returned from its constructor; each may construct
\* another handle.
EnsureForget ==
    /\ \A c \in Controllers : ensuring[c].pc = "done"
    /\ ensuring' = [c \in Controllers |-> NoEnsure]
    /\ UNCHANGED <<mux, name, working_dir, script, windows, services, issued, last, call, clock>>

\* Between two rounds of constructors a session is ended from outside.
SessionEnds(n) ==
    /\ \A c \in Controllers : ensuring[c].pc = "idle"
    /\ TmuxHasSession(mux, n)
    /\ mux' = TmuxKillSession(mux, n).m
    /\ UNCHANGED <<name, working_dir, ensuring, script, windows, services, issued, last, call, clock>>

\* ------------------------------------------------------------------- spec
Init ==
    /\ \E n \in {"dev"} :
          /\ mux = StartIn(EmptyMux, EnsureSession(EmptyMux, n).m, HereDir)
          /\ working_dir = HereDir
          /\ issued = EnsureSession(EmptyMux, n).cmds
          /\ name = n
          /\ last = Done("init", n, "")
    /\ ensuring = [c \in Controllers |-> NoEnsure]
    /\ script = NoScript
    /\ windows = <<>>
    /\ services = <<>>
    /\ call = NoCall
    /\ clock = 0

Next ==
    \/ \E n \in SessionNames, d \in Dirs : ConstructIn(n, d)
    \/ \E n \in SessionNames, d \in Dirs : ConstructRefused(n, d)
    \/ \E n \in SessionNames : Construct(n)
    \/ \E wn \in WindowNames, c \in Commands, sp \in BOOLEAN,
          d \in {"vertical", "horizontal"} : AddWindow(wn, c, sp, d)
    \/ \E wn \in WindowNames, k \in {"run", "Enter"}, lit \in BOOLEAN : SendKeys(wn, k, lit)
    \/ \E wn \in WindowNames, n \in {0, DefaultLines} : CaptureOutput(wn, n)
    \/ \E wn \in WindowNames : KillWindow(wn)
    \/ Kill
    \/ \E wn \in WindowNames, pt \in WaitPatterns, t \in 0..MaxTimeout,
          i \in Intervals : WaitForPattern(wn, pt, t, i)
    \/ \E late \in Oversleep : PatternPoll(late)
    \/ \E wn \in WindowNames, t \in 0..MaxTimeout, i \in Intervals,
          late \in Oversleep : WaitForChange(wn, t, i, late)
    \/ \E late \in Oversleep : ChangePoll(late)
    \/ \E wn \in WindowNames : StreamOutput(wn)
    \/ StreamPoll
    \/ StreamStop
    \/ \E n \in WindowNames, c \in Commands, pt \in ReadyPatterns : AddService(n, c, pt)
    \/ StartAll
    \/ \E t \in 0..MaxTimeout : WaitForReady(t)
    \/ ReadyNext
    \/ \E late \in Oversleep : ReadyPoll(late)
    \/ \E g \in BOOLEAN : ShutdownAll(g)
    \/ \E ps \in PatternLists : MonitorLogs(ps)
    \/ \E p \in 1..MaxPanes, l \in Lines : Emit(p, l)
    \/ \E p \in 1..MaxPanes : WindowClosed(p)
    \/ \E op \in ToolOps, wn \in WindowNames : ToolMissing(op, wn)
    \/ ListWindows
    \/ Snapshot
    \/ \E wn \in OutsideNames : WindowOpened(wn)
    \/ \E c \in Controllers, n \in SessionNames, d \in Dirs : EnsureProbe(c, n, d)
    \/ \E c \in Controllers : EnsureCreate(c)
    \/ EnsureForget
    \/ \E n \in SessionNames : SessionEnds(n)
    \/ StaleSession
    \/ ScriptCleanup
    \/ ScriptCreate
    \/ ScriptAddWindow
    \/ \E up \in BOOLEAN, cost \in 1..2 : ScriptHealth(up, cost)
    \/ ScriptAbort
    \/ \E cost \in 1..2 : ScriptMonitor(cost)
    \/ ScriptSummary
    \/ Tick

Spec == Init /\ [][Next]_vars

\* One run of the E2E script, over servers that come up or do not and a
\* test process that prints.
NextScript ==
    \/ StaleSession
    \/ ScriptCleanup
    \/ ScriptCreate
    \/ ScriptAddWindow
    \/ \E up \in BOOLEAN, cost \in 1..2 : ScriptHealth(up, cost)
    \/ ScriptAbort
    \/ \E cost \in 1..2 : ScriptMonitor(cost)
    \/ ScriptSummary
    \/ \E p \in PaneIds, l \in {"Test completed successfully", "boot"} : Emit(p, l)

SpecScript == Init /\ [][NextScript]_vars

\* Two controllers constructing handles at the same time.
NextEnsure ==
    \/ \E c \in Controllers, n \in SessionNames, d \in Dirs : EnsureProbe(c, n, d)
    \/ \E c \in Controllers : EnsureCreate(c)
    \/ EnsureForget
    \/ \E n \in SessionNames : SessionEnds(n)

SpecEnsure == Init /\ [][NextEnsure]_vars

\* The operations of a session handle that return at once, and the
\* monitored processes.
NextSession ==
    \/ \E n \in SessionNames : Construct(n)
    \/ \E wn \in WindowNames, c \in Commands, sp \in BOOLEAN,
          d \in {"vertical", "horizontal"} : AddWindow(wn, c, sp, d)
    \/ \E wn \in WindowNames, k \in {"run", "Enter"}, lit \in BOOLEAN : SendKeys(wn, k, lit)
    \/ \E wn \in WindowNames, n \in {0, DefaultLines} : CaptureOutput(wn, n)
    \/ \E wn \in WindowNames : KillWindow(wn)
    \/ Kill
    \/ \E p \in 1..MaxPanes, l \in Lines : Emit(p, l)

SpecSession == Init /\ [][NextSession]_vars

\* The observer's waits and stream over windows added to the handle.
NextObserve ==
    \/ \E wn \in WindowNames, sp \in BOOLEAN : AddWindow(wn, "run", sp, "vertical")
    \/ \E wn \in WindowNames, pt \in WaitPatterns, t \in 0..MaxTimeout,
          i \in Intervals : WaitForPattern(wn, pt, t, i)
    \/ \E late \in Oversleep : PatternPoll(late)
    \/ \E wn \in WindowNames, t \in 0..MaxTimeout, i \in Intervals,
          late \in Oversleep : WaitForChange(wn, t, i, late)
    \/ \E late \in Oversleep : ChangePoll(late)
    \/ \E wn \in WindowNames : StreamOutput(wn)
    \/ StreamPoll
    \/ StreamStop
    \/ \E p \in 1..MaxPanes, l \in Lines : Emit(p, l)
    \/ Tick

SpecObserve == Init /\ [][NextObserve]_vars

\* The orchestrator's operations and the monitored processes.
NextOrch ==
    \/ \E n \in WindowNames, pt \in ReadyPatterns : AddService(n, "run", pt)
    \/ StartAll
    \/ \E t \in 0..MaxTimeout : WaitForReady(t)
    \/ ReadyNext
    \/ \E late \in Oversleep : ReadyPoll(late)
    \/ \E g \in BOOLEAN : ShutdownAll(g)
    \/ \E p \in 1..MaxPanes, l \in Lines : Emit(p, l)
    \/ Tick

SpecOrch == Init /\ [][NextOrch]_vars

\* The waits alone, under the scheduling the code relies on: the services are
\* registered first, then the thread that waits is never stopped for good
\* and the clock of time.time() keeps advancing while it sleeps.
NextLive ==
    \/ \E n \in WindowNames, pt \in {"ready", NoPattern} :
          last.op \in {"init", "add_service"} /\ AddService(n, "run", pt)
    \/ \E wn \in WindowNames, t \in 0..MaxTimeout, i \in Intervals :
          WaitForPattern(wn, "ready", t, i)
    \/ \E late \in Oversleep : PatternPoll(late)
    \/ \E wn \in WindowNames, t \in 0..MaxTimeout, i \in Intervals,
          late \in Oversleep : WaitForChange(wn, t, i, late)
    \/ \E late \in Oversleep : ChangePoll(late)
    \/ \E t \in 0..MaxTimeout : WaitForReady(t)
    \/ ReadyNext
    \/ \E late \in Oversleep : ReadyPoll(late)
    \/ \E p \in 1..MaxPanes : Emit(p, "READY")
    \/ Tick

\* A step of the thread inside a wait.
Thread ==
    \/ \E late \in Oversleep : PatternPoll(late)
    \/ \E late \in Oversleep : ChangePoll(late)
    \/ \E late \in Oversleep : ReadyPoll(late)
    \/ ReadyNext

SpecLive == Init /\ [][NextLive]_vars /\ WF_vars(Tick) /\ WF_vars(Thread)

\* The orchestrator's services with the handle's kill_window, shutdown and
\* log monitoring, over processes that print log lines.
LogLines == {"ERROR: disk full", "boot"}

NextServices ==
    \/ \E n \in WindowNames : AddService(n, "run", NoPattern)
    \/ \E wn \in WindowNames : KillWindow(wn)
    \/ \E g \in BOOLEAN : ShutdownAll(g)
    \/ \E ps \in PatternLists : MonitorLogs(ps)
    \/ \E p \in 1..MaxPanes, l \in LogLines : Emit(p, l)

SpecServices == Init /\ [][NextServices]_vars

\* The observation operations over the windows of registered services
\* whose processes print, with the readiness wait that sets the flags.
NextWatch ==
    \/ \E n \in WindowNames : AddService(n, "run", "ready")
    \/ WaitForReady(1)
    \/ ReadyNext
    \/ ReadyPoll(0)
    \/ \E wn \in WindowNames : CaptureOutput(wn, DefaultLines)
    \/ \E wn \in WindowNames : WaitForPattern(wn, "ready", 1, DefaultInterval)
    \/ PatternPoll(0)
    \/ \E wn \in WindowNames : WaitForChange(wn, 1, DefaultInterval, 0)
    \/ ChangePoll(0)
    \/ \E wn \in WindowNames : StreamOutput(wn)
    \/ StreamPoll
    \/ StreamStop
    \/ Snapshot
    \/ ListWindows
    \/ \E ps \in {DefaultPatterns, <<"fatal">>} : MonitorLogs(ps)
    \/ \E p \in 1..MaxPanes, l \in {"READY", "ERROR: disk full"} : Emit(p, l)
    \/ Tick

SpecWatch == Init /\ [][NextWatch]_vars

\* The stream over windows that print and that may be closed under it.
NextStream ==
    \/ \E wn \in WindowNames, sp \in BOOLEAN : AddWindow(wn, "run", sp, "vertical")
    \/ \E wn \in WindowNames : StreamOutput(wn)
    \/ StreamPoll
    \/ StreamStop
    \/ \E p \in 1..MaxPanes, l \in Lines : Emit(p, l)
    \/ \E p \in 1..MaxPanes : WindowClosed(p)

SpecStream == Init /\ [][NextStream]_vars

\* The operations of a handle, with a tmux executable that may be missing
\* when an operation is called.
NextExec ==
    \/ \E n \in SessionNames : Construct(n)
    \/ \E wn \in WindowNames, c \in Commands, sp \in BOOLEAN : AddWindow(wn, c, sp, "vertical")
    \/ \E wn \in WindowNames : SendKeys(wn, "run", FALSE)
    \/ \E wn \in WindowNames : CaptureOutput(wn, DefaultLines)
    \/ \E wn \in WindowNames : KillWindow(wn)
    \/ Kill
    \/ \E op \in ToolOps, wn \in WindowNames : ToolMissing(op, wn)

SpecExec == Init /\ [][NextExec]_vars

\* Handles made for sessions in different working directories, and the
\* windows added through them.
NextDirs ==
    \/ \E n \in SessionNames, d \in Dirs : ConstructIn(n, d)
    \/ \E n \in SessionNames, d \in Dirs : ConstructRefused(n, d)
    \/ \E wn \in WindowNames, sp \in BOOLEAN : AddWindow(wn, "", sp, "vertical")
    \/ Kill

SpecDirs == Init /\ [][NextDirs]_vars

\* A handle whose session is killed, and the window operations called on it
\* before and after.
NextKilled ==
    \/ \E wn \in WindowNames, sp \in BOOLEAN : AddWindow(wn, "run", sp, "vertical")
    \/ Kill
    \/ \E wn \in WindowNames : SendKeys(wn, "run", FALSE)
    \/ \E wn \in WindowNames : CaptureOutput(wn, DefaultLines)
    \/ \E wn \in WindowNames : KillWindow(wn)
    \/ \E wn \in WindowNames, t \in 0..1 : WaitForPattern(wn, "ready", t, DefaultInterval)
    \/ PatternPoll(0)
    \/ \E wn \in WindowNames, t \in 0..1 : WaitForChange(wn, t, DefaultInterval, 0)
    \/ ChangePoll(0)
    \/ \E wn \in WindowNames : StreamOutput(wn)
    \/ StreamPoll
    \/ StreamStop
    \/ Tick

SpecKilled == Init /\ [][NextKilled]_vars

\* list_windows on a session whose windows come and go, through the handle
\* and outside it.
NextList ==
    \/ \E wn \in WindowNames : AddWindow(wn, "", FALSE, "vertical")
    \/ \E wn \in WindowNames : KillWindow(wn)
    \/ ListWindows
    \/ \E wn \in OutsideNames : WindowOpened(wn)
    \/ \E p \in 1..MaxPanes : WindowClosed(p)

SpecList == Init /\ [][NextList]_vars

\* The key dispatcher alone: windows are added and every key argument of the
\* model is sent to them, in both modes.
NextKeys ==
    \/ \E wn \in WindowNames, sp \in BOOLEAN : AddWindow(wn, "", sp, "vertical")
    \/ \E wn \in WindowNames, k \in KeySymbols \cup RawKeys, lit \in BOOLEAN :
           SendKeys(wn, k, lit)

SpecKeys == Init /\ [][NextKeys]_vars

\* The operations of a session handle that shape the registry and the
\* windows of the multiplexer.
NextRegistry ==
    \/ \E n \in SessionNames : Construct(n)
    \/ \E wn \in WindowNames, c \in Commands, sp \in BOOLEAN,
          d \in {"vertical", "horizontal"} : AddWindow(wn, c, sp, d)
    \/ \E wn \in WindowNames, k \in {"run", "Enter"}, lit \in BOOLEAN : SendKeys(wn, k, lit)
    \/ \E wn \in WindowNames, n \in {0, DefaultLines} : CaptureOutput(wn, n)
    \/ \E wn \in WindowNames : KillWindow(wn)
    \/ Kill

SpecRegistry == Init /\ [][NextRegistry]_vars

\* ----------------------------------------------------------------- claims
\* C1: constructing a handle for session name n twice in succession leaves
\* exactly one live session named n; the second construction only probes
\* (has-session) and issues no new-session.
C1_EnsureIdempotent ==
    (last.op = "init" /\ last.again) =>
        /\ last.arg \in mux.sessions
        /\ issued = <<Cmd("has-session", SessionTarget(last.arg), "")>>
        /\ \A i \in DOMAIN issued : issued[i].cmd # "new-session"
        /\ Cardinality({i \in DOMAIN mux.wins : mux.wins[i].sess = last.arg
                                                /\ mux.wins[i].wname = ShellName}) <= 1

C1_Witness == last.op = "init" /\ last.again /\ last.arg = "ci" /\ "ci" \in mux.sessions

\* C2: add_window with a name already in the registry raises the duplicate
\* error, issues no multiplexer command and no keystroke, and leaves the
\* registry and the multiplexer as they were.
C2_DuplicateRejected ==
    [][(last'.op = "add_window" /\ last' # last /\ last'.arg \in Names(windows))
          => /\ last'.err = "ValueError"
             /\ issued' = <<>>
             /\ windows' = windows
             /\ mux' = mux]_vars

C2_Witness ==
    /\ last.op = "add_window"
    /\ last.err = "ValueError"
    /\ last.arg \in Names(windows)
    /\ issued = <<>>

\* C3: wait_for_pattern returns true if and only if the pattern, matched
\* without regard to case, appeared in a capture it took, and it takes no
\* capture later than timeout after the call.
C3_TrueIffCaptured ==
    (last.op = "wait_for_pattern" /\ last.err = "") =>
        /\ last.flag <=> last.notes.hit
        /\ ~last.notes.late

C3_Witness ==
    /\ last.op = "wait_for_pattern"
    /\ last.err = ""
    /\ last.flag
    /\ last.notes.wrote = "intime"

\* C4 as stated: when the watched window gains the pattern at a time
\* t < timeout after the call, wait_for_pattern returns true; when it is
\* first written at or after timeout, it returns false.
C4_WriteBeforeTimeoutSeen ==
    (last.op = "wait_for_pattern" /\ last.err = "") =>
        /\ last.notes.wrote = "intime" => last.flag
        /\ last.notes.wrote = "after" => ~last.flag

\* C4 amended: a write at t < timeout makes wait_for_pattern return true
\* exactly when a capture is taken after the write (captures are taken only
\* while the elapsed time is below timeout); a pattern first written at or
\* after timeout, or never, gives false; a pattern already on the window at
\* the call gives true exactly when timeout > 0.
C4_WriteSeenIfRecaptured ==
    (last.op = "wait_for_pattern" /\ last.err = "") =>
        /\ last.notes.wrote = "intime" => (last.flag <=> last.notes.reread)
        /\ last.notes.wrote \in {"after", "never"} => ~last.flag
        /\ last.notes.wrote = "before" => (last.flag <=> last.timeout > 0)

C4_Witness ==
    /\ last.op = "wait_for_pattern"
    /\ last.err = ""
    /\ last.notes.wrote = "intime"
    /\ ~last.flag
    /\ last.notes.polled

\* C5: every wait (wait_for_pattern, wait_for_change, wait_for_ready) that
\* has begun ends, and one that ends without a match returns a plain
\* failure: false, or a list without the service; a wait raises only for a
\* window the registry does not hold, never for a timeout.
C5_PlainFailure ==
    /\ (last.op \in {"wait_for_pattern", "wait_for_change"} /\ last.err = ""
          /\ ~last.notes.hit) => ~last.flag
    /\ (last.op = "wait_for_ready" /\ last.err = "") =>
          \A i \in DOMAIN last.notes.waits :
              ~last.notes.waits[i].result =>
                  last.notes.waits[i].name \notin Range(last.out)
    /\ (last.op \in {"wait_for_pattern", "wait_for_change", "wait_for_ready"}
          /\ last.err # "") => (last.arg \notin Names(windows) /\ ~last.notes.polled)

C5_WaitsTerminate == [](C5_PlainFailure) /\ (Waiting ~> ~Waiting)

C5_Witness ==
    /\ last.op = "wait_for_ready"
    /\ last.err = ""
    /\ last.timeout > 0
    /\ \E i \in DOMAIN last.notes.waits : ~last.notes.waits[i].result

\* C6 as stated: once stream_output has captured everything its window's
\* process printed, it has yielded exactly the printed lines, in order,
\* none missing and none twice.
C6_StreamYieldsAll ==
    (/\ call.op = "stream_output"
     /\ call.started
     /\ call.win \in Names(windows)
     /\ WatchedPane(mux, windows, call.win) # 0
     /\ call.last_output = TmuxCapturePane(mux, Lookup(windows, call.win).id, StreamLines))
        => call.yielded = mux.buf[WatchedPane(mux, windows, call.win)]

\* The readiness flag of the service named n (false when not registered).
ReadyFlag(svcs, n) == \E i \in DOMAIN svcs : svcs[i].name = n /\ svcs[i].ready

\* C7 as stated: a service's readiness flag is false at registration, turns
\* true only in wait_for_ready on a capture showing its pattern, and never
\* goes from true back to false.
C7_ReadyNeverReverts ==
    [][\A n \in WindowNames :
          /\ (n \notin Names(services) /\ n \in Names(services'))
                => ~ReadyFlag(services', n)
          /\ (~ReadyFlag(services, n) /\ ReadyFlag(services', n))
                => (call.op = "wait_for_ready" /\ call'.notes.hit)
          /\ ReadyFlag(services, n) => ReadyFlag(services', n)]_vars

\* A service has a readiness pattern.
HasPattern(sv) == sv.ready_pattern # NoPattern /\ sv.ready_pattern # ""

NamesOf(ws) == [i \in DOMAIN ws |-> ws[i].name]

\* C8: wait_for_ready waits, in order, for exactly the services that have a
\* readiness pattern and returns exactly the names of those whose wait
\* returned true; a service without a pattern is never in the result, and a
\* service whose window already shows its pattern is (timeout > 0).
C8_ReadyResult ==
    (last.op = "wait_for_ready" /\ last.err = "") =>
        LET w == last.notes.waits
        IN  /\ NamesOf(w) = NamesOf(SelectSeq(services, HasPattern))
            /\ last.out = NamesOf(SelectSeq(w, LAMBDA x : x.result))
            /\ \A i \in DOMAIN services :
                  ~HasPattern(services[i]) => services[i].name \notin Range(last.out)
            /\ \A i \in DOMAIN w :
                  (w[i].before /\ last.timeout > 0) => w[i].name \in Range(last.out)

C8_Witness ==
    /\ last.op = "wait_for_ready"
    /\ last.err = ""
    /\ \E i \in DOMAIN last.notes.waits :
          last.notes.waits[i].before /\ last.notes.waits[i].result
    /\ \E i \in DOMAIN services : ~HasPattern(services[i])
    /\ last.out # <<>>

\* C9: a service whose pattern wait times out is left as it was and is only
\* omitted from the result: the step that times out changes no service and
\* adds no name, the loop goes on to the next service, every service with a
\* pattern has had its wait when wait_for_ready returns, and wait_for_ready
\* raises for nothing but a window the registry does not hold.
C9_TimeoutOnlyOmits ==
    /\ [](/\ (last.op = "wait_for_ready" /\ last.err = "") =>
                /\ Len(last.notes.waits) = Len(SelectSeq(services, HasPattern))
                /\ \A i \in DOMAIN last.notes.waits :
                      ~last.notes.waits[i].result =>
                          last.notes.waits[i].name \notin Range(last.out)
          /\ (last.op = "wait_for_ready" /\ last.err # "") =>
                last.arg \notin Names(windows))
    /\ [][(/\ call.op = "wait_for_ready"
           /\ call'.op = "wait_for_ready"
           /\ Len(call'.notes.waits) > Len(call.notes.waits)
           /\ ~Last(call'.notes.waits).result)
            => /\ services' = services
               /\ call'.ready = call.ready
               /\ call'.pc = "next"
               /\ ~ReadyFlag(services, call.win) => ~ReadyFlag(services', call.win)]_vars

C9_Witness ==
    /\ last.op = "wait_for_ready"
    /\ last.err = ""
    /\ Len(last.notes.waits) = 2
    /\ ~last.notes.waits[1].result
    /\ last.notes.waits[2].result
    /\ ~ReadyFlag(services, last.notes.waits[1].name)

\* C10: shutdown_all(graceful) sends C-c to every registered service, in
\* order, then waits the grace period, and only then kills the session;
\* shutdown_all(graceful=False) sends no key and issues only the kill.
C10_ShutdownOrder ==
    (last.op = "shutdown_all") =>
        LET kills == {i \in DOMAIN issued : issued[i].cmd = "kill-session"}
            n == Len(services)
        IN  IF ~last.flag
            THEN /\ last.err = ""
                 /\ Len(issued) = 1
                 /\ issued[1].cmd = "kill-session"
            ELSE IF kills = {}
            THEN last.err = "ValueError"
            ELSE /\ last.err = ""
                 /\ Len(issued) = n + 2
                 /\ \A i \in 1..n :
                       /\ issued[i].cmd = "send-keys"
                       /\ issued[i].t = services[i].window_id
                       /\ issued[i].a = "C-c"
                 /\ issued[n + 1].cmd = "sleep"
                 /\ issued[n + 1].n = GraceSeconds
                 /\ kills = {n + 2}

C10_Witness ==
    /\ last.op = "shutdown_all"
    /\ last.flag
    /\ last.err = ""
    /\ Len(services) = 2
    /\ Len(issued) = 4

\* C11 as stated: every call of shutdown_all, whatever happened before it,
\* ends with the session gone from the multiplexer, no pane of any service
\* left and the registry empty.
C11_ShutdownTerminates ==
    (last.op = "shutdown_all") =>
        /\ name \notin mux.sessions
        /\ windows = <<>>
        /\ \A i \in DOMAIN services : ResolvePane(mux, services[i].window_id) = 0

\* The pattern occurs in the line, whatever the case of its letters.
Occurs(pattern, line) ==
    \E x \in Parts(line) : \E y \in {x, Fold(x)} : y \in {pattern, Fold(pattern)}

\* C12: monitor_logs(patterns), when it returns, gives one entry per
\* registered service, in table order; the entry of a service holds every
\* line of the service's capture (last 100 lines) that matches some pattern
\* without regard to case, and no other line; for a window that printed the
\* single line `ERROR: disk full` and the default patterns the entry is
\* exactly that line.
C12_MonitorLogsMatches ==
    [][\A ps \in PatternLists :
          (MonitorLogs(ps) /\ last'.err = "") =>
              LET lg == last'.logs
              IN  /\ NamesOf(lg) = NamesOf(services)
                  /\ \A i \in DOMAIN lg :
                        LET id == Lookup(windows, lg[i].name).id
                            rows == TmuxCapturePane(mux, id, DefaultLines)
                            p == ResolvePane(mux, id)
                        IN  /\ Range(lg[i].lines) =
                                 {r \in Range(rows) : \E j \in DOMAIN ps : Occurs(ps[j], r)}
                            /\ (/\ ps = DefaultPatterns
                                /\ p # 0
                                /\ mux.buf[p] = <<"ERROR: disk full">>)
                                  => lg[i].lines = <<"ERROR: disk full">>]_vars

C12_Witness ==
    /\ last.op = "monitor_logs"
    /\ last.err = ""
    /\ Len(last.logs) = 2
    /\ last.logs[1].lines = <<"ERROR: disk full">>
    /\ last.logs[2].lines = <<>>

\* C13 as stated: capture_output(window, lines=L) returns at most L lines
\* of content, whatever the window holds.
C13_CaptureAtMostLines ==
    (last.op = "capture_output" /\ last.err = "") =>
        Len(SelectSeq(last.out, LAMBDA r : r # "")) <= issued[1].n

CallOn(wn) ==
    \/ \E k \in {"run", "Enter"}, lit \in BOOLEAN : SendKeys(wn, k, lit)
    \/ \E n \in {0, DefaultLines} : CaptureOutput(wn, n)
    \/ \E pt \in WaitPatterns, t \in 0..MaxTimeout, i \in Intervals :
          WaitForPattern(wn, pt, t, i)
    \/ \E t \in 0..MaxTimeout, i \in Intervals, late \in Oversleep :
          WaitForChange(wn, t, i, late)
    \/ StreamOutput(wn)

\* C15 as stated: each of send_keys, capture_output, wait_for_pattern,
\* wait_for_change and stream_output, called with a name the registry does
\* not hold, fails with the unknown-window error at the call itself, before
\* any multiplexer command and without changing the registry.
C15_UnknownFailsAtCall ==
    [][\A wn \in WindowNames :
          (wn \notin Names(windows) /\ CallOn(wn)) =>
              /\ last'.err = "ValueError"
              /\ last'.arg = wn
              /\ issued' = <<>>
              /\ windows' = windows
              /\ mux' = mux
              /\ call' = NoCall]_vars

\* C16: a name add_window registered keeps its reference until
\* kill_window(name), kill() or a new handle: no other step removes or
\* changes its entry, and send_keys and capture_output on a registered name
\* never raise the unknown-window error.
C16_MappingStable ==
    /\ []((last.op \in {"send_keys", "capture_output"} /\ last.arg \in Names(windows))
             => last.err = "")
    /\ [][\A n \in Names(windows) :
             (n \notin Names(windows') \/ Lookup(windows', n) # Lookup(windows, n))
                 => (Kill \/ KillWindow(n) \/ \E s \in SessionNames : Construct(s))]_vars

C16_Witness ==
    /\ last.op = "capture_output"
    /\ last.err = ""
    /\ last.arg = "api"
    /\ Len(windows) = 2
    /\ windows[1].name = "api"
    /\ ResolvePane(mux, windows[1].id) = 0

\* The commands of a sequence that create a window or a pane.
Creations(cmds) == SelectSeq(cmds, LAMBDA x : x.cmd \in {"split-window", "new-window"})

C18_SplitAdoptsNewPane ==
    [][\A wn \in WindowNames, c \in Commands, d \in {"vertical", "horizontal"} :
          (AddWindow(wn, c, TRUE, d) /\ wn \notin Names(windows) /\ windows # <<>>) =>
              \E p \in LivePanes(mux') \ LivePanes(mux) :
                  Lookup(windows', wn).id = PaneRef(name, p)]_vars


\* C19: add_window with a non-empty command issues, after the creation
\* commands and with the name registered, exactly two send-keys to the
\* reference recorded for the name: the command text, then C-m (Enter); with
\* an empty command it issues no send-keys.
C19_CommandThenEnter ==
    [][\A wn \in WindowNames, c \in Commands, sp \in BOOLEAN,
          d \in {"vertical", "horizontal"} :
          (AddWindow(wn, c, sp, d) /\ wn \notin Names(windows)) =>
              LET id == Lookup(windows', wn).id
                  keys == SelectSeq(issued', LAMBDA x : x.cmd = "send-keys")
                  made == Len(issued') - Len(keys)
              IN  /\ wn \in Names(windows')
                  /\ made >= 1
                  /\ \A i \in 1..Len(issued') :
                         (issued'[i].cmd = "send-keys") <=> (i > made)
                  /\ keys = IF c = "" THEN <<>>
                            ELSE <<Cmd("send-keys", id, c), Cmd("send-keys", id, "C-m")>>]_vars

C19_Witness ==
    /\ last.op = "add_window"
    /\ last.err = ""
    /\ Len(issued) = 4
    /\ issued[2].cmd = "list-panes"
    /\ issued[3] = Cmd("send-keys", last.id, "run")
    /\ issued[4] = Cmd("send-keys", last.id, "C-m")
    /\ last.id.p # 0


\* C20: send_keys in non-literal mode to a registered window issues exactly
\* one send-keys to the window's reference; its argument is C-m for Enter and
\* for Return, and keys itself for the other seven names of the table and for
\* every string outside it.
C20_NonLiteralOneCommand ==
    [][\A wn \in WindowNames, k \in KeySymbols \cup RawKeys :
          (SendKeys(wn, k, FALSE) /\ wn \in Names(windows)) =>
              issued' = <<Cmd("send-keys", Lookup(windows, wn).id,
                              IF k \in {"Enter", "Return"} THEN "C-m" ELSE k)>>]_vars

C20_Witness ==
    /\ last.op = "send_keys"
    /\ last.err = ""
    /\ last.arg \in Names(windows)
    /\ issued = <<Cmd("send-keys", Lookup(windows, last.arg).id, "C-m")>>
    /\ Lookup(windows, last.arg).id.p # 0


\* C21 as stated: send_keys in literal mode issues, for every string keys
\* (the names of the key table included), one send-keys per character of
\* keys, in order, a space sent as Space and a newline as Enter.
C21_LiteralSendsEachChar ==
    [][\A wn \in WindowNames, k \in KeySymbols \cup RawKeys :
          (SendKeys(wn, k, TRUE) /\ wn \in Names(windows)) =>
              issued' = [i \in 1..Len(Chars(k)) |->
                            Cmd("send-keys", Lookup(windows, wn).id,
                                IF Chars(k)[i] = " " THEN "Space"
                                ELSE IF Chars(k)[i] = "\n" THEN "Enter"
                                ELSE Chars(k)[i])]]_vars


\* C22: wait_for_change returns true as soon as a capture taken after the
\* call-time capture differs from it (a wait that is still running has seen
\* no differing capture), and it returns false only if every capture it took
\* after the call-time one equalled it.
C22_TrueOnFirstDifference ==
    /\ call.op = "wait_for_change" => ~call.notes.hit
    /\ (last.op = "wait_for_change" /\ last.err = "") =>
           (last.flag <=> last.notes.hit)

C22_Witness ==
    /\ last.op = "wait_for_change"
    /\ last.err = ""
    /\ last.flag
    /\ Len(issued) >= 3
    /\ \A i \in DOMAIN issued : issued[i].cmd = "capture-pane"


\* C23: in stream_output, a capture that differs from the previous one but
\* has no more rows than it yields no line and raises nothing, and it
\* becomes the capture the next pass compares with.
C23_ShrunkCaptureYieldsNothing ==
    [][(StreamPoll /\ call.win \in Names(windows)) =>
          LET current == TmuxCapturePane(mux, Lookup(windows, call.win).id, StreamLines)
          IN  (current # call.last_output /\ Len(current) <= Len(call.last_output)) =>
                  /\ call'.op = "stream_output"
                  /\ call'.yielded = call.yielded
                  /\ call'.last_output = current
                  /\ last' = last]_vars

C23_Witness ==
    /\ call.op = "stream_output"
    /\ call.started
    /\ call.yielded = <<>>
    /\ Len(call.last_output) = PaneHeight
    /\ \E i \in DOMAIN call.last_output : call.last_output[i] # ""


C25_RegistersAndStarts ==
    [][\A n \in WindowNames, pt \in ReadyPatterns :
          AddService(n, "run", pt) =>
              IF n \in Names(windows)
              THEN /\ last'.err = "ValueError"
                   /\ services' = services
                   /\ windows' = windows
              ELSE LET id == Lookup(windows', n).id
                       k == Len(issued')
                   IN  /\ last'.err = ""
                       /\ n \in Names(windows')
                       /\ k >= 3
                       /\ issued'[k - 1] = Cmd("send-keys", id, "run")
                       /\ issued'[k] = Cmd("send-keys", id, "C-m")
                       /\ Cardinality({i \in DOMAIN services' : services'[i].name = n}) = 1
                       /\ \E i \in DOMAIN services' :
                             services'[i] = [name |-> n, command |-> "run",
                                             window_id |-> id, ready_pattern |-> pt,
                                             ready |-> FALSE]]_vars

C25_Witness ==
    /\ last.op = "add_service"
    /\ last.err = ""
    /\ Len(services) = 2
    /\ services[2].name = last.arg
    /\ services[2].ready_pattern = "ready"
    /\ ~services[2].ready
    /\ services[1].ready
    /\ issued[Len(issued)].a = "C-m"


\* C26 as stated: the command executor never raises to its caller; whatever
\* happens to the tmux invocation (executable missing, time-out, non-zero
\* exit), the operation that made it ends without a hard failure: the only
\* errors an operation ends with are the usage errors (ValueError).
C26_ExecutorNeverRaises ==
    last.err \in {"", "ValueError"}


\* C27: constructing a handle issues exactly one has-session probe, first;
\* it issues one new-session (detached; a session it creates has the
\* handle's working directory as its directory) if and only if the probe
\* fails, and it ignores a new-session that fails: the constructor ends
\* without error, with an empty registry.
C27_EnsureProbesThenCreates ==
    [][\A n \in SessionNames, d \in Dirs :
          (ConstructIn(n, d) \/ ConstructRefused(n, d)) =>
              LET creates == SelectSeq(issued', LAMBDA x : x.cmd = "new-session")
              IN  /\ issued'[1] = Cmd("has-session", SessionTarget(n), "")
                  /\ Len(issued') = 1 + Len(creates)
                  /\ creates = IF n \in mux.sessions THEN <<>>
                               ELSE <<Cmd("new-session", SessionTarget(n), "-d")>>
                  /\ n \in mux'.sessions \ mux.sessions => mux'.root[n] = d
                  /\ last'.op = "init"
                  /\ last'.err = ""
                  /\ windows' = <<>>]_vars

C27_Witness ==
    /\ last.op = "init"
    /\ last.err = ""
    /\ name \notin mux.sessions
    /\ Len(issued) = 2
    /\ issued[2].cmd = "new-session"
    /\ windows = <<>>


\* C28 as stated: first writer wins for the working directory: constructing
\* a handle with another directory for a session that exists leaves the
\* session's directory as it was, and a window then added without a
\* working_dir of its own starts in the session's directory, not in the
\* handle's.
C28_FirstWriterWins ==
    [][/\ \A n \in SessionNames, d \in Dirs :
              (ConstructIn(n, d) /\ n \in mux.sessions) => mux'.root[n] = mux.root[n]
       /\ \A wn \in WindowNames, sp \in BOOLEAN :
              (AddWindow(wn, "", sp, "vertical") /\ wn \notin Names(windows)) =>
                  \A p \in LivePanes(mux') \ LivePanes(mux) :
                      mux'.cwd[p] = mux.root[name]]_vars


\* An operation on window wn begins: send_keys, capture_output, kill_window,
\* wait_for_pattern or wait_for_change is called, or a stream_output
\* generator for wn runs for the first time.
WindowOp(wn) ==
    \/ SendKeys(wn, "run", FALSE)
    \/ CaptureOutput(wn, DefaultLines)
    \/ KillWindow(wn)
    \/ \E t \in 0..1 : WaitForPattern(wn, "ready", t, DefaultInterval)
    \/ \E t \in 0..1 : WaitForChange(wn, t, DefaultInterval, 0)
    \/ (StreamPoll /\ call.win = wn /\ ~call.started)

\* C29: kill() invalidates all windows of the session: after it the session
\* is not in the multiplexer and the registry is empty, and from then on
\* (until a name is added again) every window operation on a name, the
\* names registered before included, raises the unknown-window error and
\* issues no command.
C29_KillInvalidatesWindows ==
    [][/\ Kill => (name \notin mux'.sessions /\ windows' = <<>>
                     /\ \A i \in DOMAIN mux'.wins : mux'.wins[i].sess # name)
       /\ \A wn \in WindowNames :
              (windows = <<>> /\ WindowOp(wn)) =>
                  /\ last'.err = "ValueError"
                  /\ last'.arg = wn
                  /\ issued' \in {<<>>, issued}
                  /\ call' = NoCall
                  /\ windows' = <<>>]_vars

C29_Witness ==
    /\ last.op \in {"capture_output", "wait_for_change", "stream_output"}
    /\ last.err = "ValueError"
    /\ windows = <<>>
    /\ name \notin mux.sessions
    /\ mux.next >= 3


\* C30 as stated: list_windows reports the live windows of the session as
\* tmux has them (name, id, active flag), whatever the registry holds: a
\* window created or destroyed outside the handle is reflected, and the
\* call leaves the registry (and the multiplexer) unchanged.
C30_ListsLiveWindows ==
    [][ListWindows =>
          LET live == IF name \in mux.sessions
                      THEN {i \in DOMAIN mux.wins : mux.wins[i].sess = name}
                      ELSE {}
              r == last'.listed
          IN  /\ Len(r) = Cardinality(live)
              /\ {r[k] : k \in DOMAIN r} =
                     {[name |-> mux.wins[i].wname,
                       id |-> ToString(mux.wins[i].wid),
                       active |-> (mux.cur[name] = mux.wins[i].wid)] : i \in live}
              /\ windows' = windows
              /\ mux' = mux]_vars


\* C31: when two controllers run _ensure_session for the same session name
\* at the same time, then under every interleaving of their probes and
\* creations the multiplexer never holds more than one session of that name
\* (every session is created with one window, so a second creation would
\* show as a second window), once both have returned it holds exactly one,
\* and neither controller raised.
C31_EnsureRaceKeepsOneSession ==
    /\ \A n \in SessionNames : Cardinality(WinIndexes(mux, n)) <= 1
    /\ \A c \in Controllers : ensuring[c].err = ""
    /\ \A n \in SessionNames :
          (\A c \in Controllers : ensuring[c].pc = "done" /\ ensuring[c].n = n)
              => TmuxHasSession(mux, n) /\ Cardinality(WinIndexes(mux, n)) = 1

\* Both controllers probed before either created: one new-session was refused.
C31_Witness ==
    /\ \A c \in Controllers : ensuring[c].pc = "done" /\ ensuring[c].n = "ci"
    /\ ensuring[2].lost
    /\ ~ensuring[1].lost


\* C32: the registry is injective: in every state reached by add_window
\* (split or not), kill_window and kill, two distinct logical names never
\* map to the same multiplexer reference, also when the split or creation
\* command fails or the pane listing is empty.
C32_RegistryInjective ==
    \A i, j \in DOMAIN windows : windows[i].id = windows[j].id => i = j


\* C33: with no interference from outside the handle, every registry entry
\* refers to a window or pane that exists in the multiplexer, after any
\* sequence of add_window, kill_window and kill (add_window after kill and
\* add_window whose creation command fails included).
C33_RegistryRefersToLive ==
    \A i \in DOMAIN windows : ResolvePane(mux, windows[i].id) # 0


\* C34: in every state reached by add_service, start_all, wait_for_ready,
\* monitor_logs and shutdown_all, every service of the service table has a
\* registry entry for its window, and so wait_for_ready, monitor_logs and
\* shutdown_all never fail with an unknown-window error (after
\* shutdown_all included).
C34_ServicesAreRegistered ==
    /\ \A i \in DOMAIN services : services[i].name \in Names(windows)
    /\ last.op \in {"wait_for_ready", "monitor_logs", "shutdown_all"}
          => last.err # "ValueError"


\* C35: kill_window(a) never destroys the multiplexer window or pane of
\* another registered name b: every other registry entry that referred to
\* a live pane before the call still does after it, also when a or b was
\* created by splitting.
C35_KillWindowSparesOthers ==
    [][\A wn \in WindowNames :
          KillWindow(wn) =>
              \A i \in DOMAIN windows :
                  (windows[i].name # wn /\ ResolvePane(mux, windows[i].id) # 0)
                      => ResolvePane(mux', windows[i].id) # 0]_vars


\* a can be obtained from b by dropping rows: every row of b is used at most
\* once and the rows kept are in the order they have in b.
RECURSIVE IsSubsequence(_, _)
IsSubsequence(a, b) ==
    IF a = <<>> THEN TRUE
    ELSE IF b = <<>> THEN FALSE
    ELSE IF Head(a) = Head(b) THEN IsSubsequence(Tail(a), Tail(b))
    ELSE IsSubsequence(a, Tail(b))

\* C36: in monitor_logs, each captured line appears in a service's result
\* list at most once per call and the listed lines keep the order they have
\* in the capture, also for a line that matches several of the patterns.
C36_MonitorListsEachLineOnce ==
    [][\A ps \in PatternLists :
          (MonitorLogs(ps) /\ last'.err = "") =>
              \A i \in DOMAIN last'.logs :
                  IsSubsequence(last'.logs[i].lines,
                      SplitLines(TmuxCapturePane(mux,
                          Lookup(windows, services[i].name).id, DefaultLines)))]_vars


\* One step of an observation operation: a whole call of capture_output,
\* snapshot, list_windows or monitor_logs, the call or a poll of
\* wait_for_pattern and wait_for_change, the call, a resumption or the
\* closing of a stream_output generator.
Observation ==
    \/ \E wn \in WindowNames, n \in {0, DefaultLines} : CaptureOutput(wn, n)
    \/ \E wn \in WindowNames, pt \in WaitPatterns, t \in 0..MaxTimeout,
          i \in Intervals : WaitForPattern(wn, pt, t, i)
    \/ \E late \in Oversleep : PatternPoll(late)
    \/ \E wn \in WindowNames, t \in 0..MaxTimeout, i \in Intervals,
          late \in Oversleep : WaitForChange(wn, t, i, late)
    \/ \E late \in Oversleep : ChangePoll(late)
    \/ \E wn \in WindowNames : StreamOutput(wn)
    \/ StreamPoll
    \/ StreamStop
    \/ Snapshot
    \/ ListWindows
    \/ \E ps \in PatternLists : MonitorLogs(ps)

\* C37: capture_output, wait_for_pattern, wait_for_change, stream_output,
\* snapshot, list_windows and monitor_logs send no keystrokes, create or
\* destroy no window (they run only capture-pane, list-windows and sleeps,
\* and the multiplexer is as before), and leave the registry and every
\* service's readiness flag unchanged; a monitor_logs call that follows
\* another with the same patterns over an unchanged scroll-back returns
\* what that one returned.
C37_ObservationsChangeNothing ==
    [][/\ Observation =>
              /\ mux' = mux
              /\ windows' = windows
              /\ services' = services
              /\ \A k \in DOMAIN issued' :
                    issued'[k].cmd \in {"capture-pane", "list-windows", "sleep"}
       /\ \A ps \in PatternLists :
              (/\ MonitorLogs(ps)
               /\ last.op = "monitor_logs" /\ last.err = ""
               /\ last.patterns = ps /\ last.seen = mux.buf
               /\ last'.err = "")
                  => last'.logs = last.logs]_vars

\* A second monitor_logs over the same scroll-back reported a line again,
\* with a service that is ready and a window registered.
C37_Witness ==
    /\ last.op = "monitor_logs"
    /\ last.err = ""
    /\ \E i \in DOMAIN last.logs : last.logs[i].lines # <<>>
    /\ \E i \in DOMAIN services : services[i].ready
    /\ last.again


\* The captures issued so far.
CaptureSteps == {k \in DOMAIN issued : issued[k].cmd = "capture-pane"}

\* The position in the service table of the service whose window a
\* capture was taken of.
CapturedService(k) ==
    CHOOSE i \in DOMAIN services : NameId(name, services[i].name) = issued[k].t

\* C38: wait_for_ready waits on the services strictly one after another in
\* registration order: no capture of a later-registered service is taken
\* before the wait of every earlier-registered service that has a pattern
\* has returned, and the names returned are in registration order with no
\* name repeated.
C38_ReadyWaitsInOrder ==
    /\ (call.op = "wait_for_ready" \/ (last.op = "wait_for_ready" /\ last.err = "")) =>
          LET waits == IF call.op = "wait_for_ready"
                       THEN call.notes.waits ELSE last.notes.waits
          IN  /\ \A k \in CaptureSteps : \A i \in 1..(CapturedService(k) - 1) :
                    Truthy(services[i].ready_pattern) =>
                        \E w \in DOMAIN waits : waits[w].name = services[i].name
              /\ \A k1, k2 \in CaptureSteps :
                    k1 < k2 => CapturedService(k1) <= CapturedService(k2)
    /\ (last.op = "wait_for_ready" /\ last.err = "") =>
          /\ IsSubsequence(last.out, NamesOf(services))
          /\ \A a, b \in DOMAIN last.out : last.out[a] = last.out[b] => a = b

\* Two services with patterns were waited on, both were captured and both
\* came back ready.
C38_Witness ==
    /\ last.op = "wait_for_ready"
    /\ last.err = ""
    /\ Len(last.out) = 2
    /\ Len(last.notes.waits) = 2
    /\ \E k1, k2 \in CaptureSteps : CapturedService(k1) # CapturedService(k2)


\* C39: every call of wait_for_pattern takes at least one capture of the
\* window, so a pattern that is on the window when the call is made gives
\* true for every timeout >= 0 (timeout 0 included); and every call of
\* wait_for_change compares at least one later capture with the capture
\* taken at the call.
C39_WaitsLookAtLeastOnce ==
    /\ (last.op = "wait_for_pattern" /\ last.err = "") =>
          /\ \E k \in DOMAIN issued : issued[k].cmd = "capture-pane"
          /\ last.notes.wrote = "before" => last.flag
    /\ (last.op = "wait_for_change" /\ last.err = "") =>
          Cardinality({k \in DOMAIN issued : issued[k].cmd = "capture-pane"}) >= 2


\* The health check made after the k-th window of the script returned r.
Checked(k, r) == Len(script.ready) >= k /\ script.ready[k] = r

\* The windows of the script's session in the multiplexer, by name.
SessionWindows == {mux.wins[i].wname : i \in WinIndexes(mux, E2ESession)}

\* C40: the E2E script adds its windows in the order backend, frontend,
\* browser, e2e-test; it adds the frontend window only after the backend
\* health check succeeded and the browser window only after the frontend
\* check succeeded; when the backend or the frontend check fails it adds no
\* further window, terminates the session and returns 1; a failing browser
\* check does not abort the run.
C40_ScriptStartsInOrder ==
    LET order == <<"backend", "frontend", "browser", "e2e-test">>
        mine == script.pc \notin {"start", "create"}
    IN  /\ mine => /\ Len(windows) <= Len(order)
                   /\ \A i \in DOMAIN windows : windows[i].name = order[i]
        /\ script.pc # "raised"
        /\ (mine /\ "frontend" \in SessionWindows) => Checked(1, "yes")
        /\ (mine /\ "browser" \in SessionWindows) => Checked(2, "yes")
        /\ \A k \in 1..2 :
              Checked(k, "no") =>
                  /\ script.pc \in {"abort", "done"}
                  /\ \A j \in (k + 1)..Len(order) : order[j] \notin SessionWindows
                  /\ script.pc = "done" =>
                        /\ script.ret = 1
                        /\ ~TmuxHasSession(mux, E2ESession)
                        /\ windows = <<>>
        /\ Checked(3, "no") =>
              /\ script.pc \in {"add", "monitor", "summary", "done"}
              /\ script.pc # "add" => NamesOf(windows) = order
              /\ script.pc = "done" => (script.ret = 0 /\ TmuxHasSession(mux, E2ESession))

\* The script ran to its end although the browser check failed: all four
\* windows were added, after the backend and the frontend were found healthy.
C40_Witness ==
    /\ script.pc = "done"
    /\ script.ret = 0
    /\ script.ready = <<"yes", "yes", "no">>
    /\ NamesOf(windows) = <<"backend", "frontend", "browser", "e2e-test">>
    /\ SessionWindows = {ShellName, "backend", "frontend", "browser", "e2e-test"}

====
